---- MODULE Spec2Model ----
(***************************************************************************)
(* Model of the PR analysis pipeline of pr-review-app (cli/internal):      *)
(*   - collect.ParsePatch      : unified-diff text -> changed line numbers *)
(*   - lsp.Client              : JSON-RPC client (Call / readLoop / Close) *)
(*   - lsp.FindReferences      : one analyzer session per file             *)
(*   - collect.BuildPRSession  : the per-file loop around them             *)
(* Text is modelled as sequences of one-character strings.                 *)
(***************************************************************************)
EXTENDS Integers, Sequences, FiniteSets, TLC

\* ------------------------------------------------------------------------
\* Bounds
\* ------------------------------------------------------------------------
\* longest patch, in lines, that SpecPatch enumerates
MaxPatchLines == 5

\* ------------------------------------------------------------------------
\* Strings
\* ------------------------------------------------------------------------
Digits == <<"0", "1", "2", "3", "4", "5", "6", "7", "8", "9">>

IsDigit(c) == \E i \in 1..10 : Digits[i] = c

DigitVal(c) == (CHOOSE i \in 1..10 : Digits[i] = c) - 1

\* strings.HasPrefix
HasPrefix(s, p) == Len(s) >= Len(p) /\ SubSeq(s, 1, Len(p)) = p

RECURSIVE AtoiFrom(_, _, _)
AtoiFrom(s, i, acc) ==
  IF i > Len(s) THEN acc ELSE AtoiFrom(s, i + 1, acc * 10 + DigitVal(s[i]))

\* strconv.Atoi on a string of decimal digits (the only strings the regexp
\* group can capture)
Atoi(s) == AtoiFrom(s, 1, 0)

RECURSIVE SplitFrom(_, _, _, _)
SplitFrom(s, i, cur, out) ==
  IF i > Len(s) THEN Append(out, cur)
  ELSE IF s[i] = "\n" THEN SplitFrom(s, i + 1, <<>>, Append(out, cur))
  ELSE SplitFrom(s, i + 1, Append(cur, s[i]), out)

\* strings.Split(patch, "\n")
Split(s) == SplitFrom(s, 1, <<>>, <<>>)

\* ------------------------------------------------------------------------
\* The hunk-header regexp  ^@@ -\d+(?:,\d+)? \+(\d+)(?:,(\d+))? @@
\* Positions are 1-based; 0 means "no match".
\* ------------------------------------------------------------------------
\* position after the literal lit when s continues with lit at position i
MatchLit(s, i, lit) ==
  IF i = 0 THEN 0
  ELSE IF Len(s) >= i + Len(lit) - 1 /\ SubSeq(s, i, i + Len(lit) - 1) = lit
       THEN i + Len(lit) ELSE 0

RECURSIVE DigitsEnd(_, _)
DigitsEnd(s, i) ==
  IF i <= Len(s) /\ IsDigit(s[i]) THEN DigitsEnd(s, i + 1) ELSE i

\* \d+ : position after the longest run of digits at i, 0 when there is none
MatchDigits(s, i) ==
  IF i = 0 THEN 0
  ELSE LET e == DigitsEnd(s, i) IN IF e > i THEN e ELSE 0

\* (?:,\d+)? : taken when it matches, skipped otherwise
MatchOptCount(s, i) ==
  IF i = 0 THEN 0
  ELSE LET e == MatchDigits(s, MatchLit(s, i, <<",">>))
       IN  IF e # 0 THEN e ELSE i

\* re.FindStringSubmatch(line): ok is len(matches) > 1, start is matches[1]
FindStringSubmatch(line) ==
  LET p1 == MatchLit(line, 1, <<"@", "@", " ", "-">>)
      p2 == MatchOptCount(line, MatchDigits(line, p1))
      p3 == MatchLit(line, p2, <<" ", "+">>)
      p4 == MatchDigits(line, p3)
      p5 == MatchOptCount(line, p4)
      p6 == MatchLit(line, p5, <<" ", "@", "@">>)
  IN  IF p6 # 0 THEN [ok |-> TRUE, start |-> SubSeq(line, p3, p4 - 1)]
      ELSE [ok |-> FALSE, start |-> <<>>]

\* ------------------------------------------------------------------------
\* collect.ParsePatch
\* ------------------------------------------------------------------------
\* ParsePatchLine with the '-' branch advancing the counter as the ' ' branch
\* does
ParsePatchLine_RemovedAdvances(st, line, idx) ==
  IF HasPrefix(line, <<"@", "@">>) THEN
    IF FindStringSubmatch(line).ok
    THEN [st EXCEPT !.currentLine = Atoi(FindStringSubmatch(line).start)]
    ELSE st
  ELSE IF HasPrefix(line, <<"+">>) THEN
    [lines |-> Append(st.lines, st.currentLine),
     from |-> Append(st.from, idx),
     currentLine |-> st.currentLine + 1]
  ELSE IF HasPrefix(line, <<" ">>) \/ HasPrefix(line, <<"-">>) THEN
    [st EXCEPT !.currentLine = st.currentLine + 1]
  ELSE st

\* ParsePatchLine with the context branch emitting as the '+' branch does
ParsePatchLine_EmitContext(st, line, idx) ==
  IF HasPrefix(line, <<"@", "@">>) THEN
    IF FindStringSubmatch(line).ok
    THEN [st EXCEPT !.currentLine = Atoi(FindStringSubmatch(line).start)]
    ELSE st
  ELSE IF HasPrefix(line, <<"+">>) \/ HasPrefix(line, <<" ">>) THEN
    [lines |-> Append(st.lines, st.currentLine),
     from |-> Append(st.from, idx),
     currentLine |-> st.currentLine + 1]
  ELSE st

\* ParsePatchLine with the context branch leaving currentLine alone
ParsePatchLine_ContextNoAdvance(st, line, idx) ==
  IF HasPrefix(line, <<"@", "@">>) THEN
    IF FindStringSubmatch(line).ok
    THEN [st EXCEPT !.currentLine = Atoi(FindStringSubmatch(line).start)]
    ELSE st
  ELSE IF HasPrefix(line, <<"+">>) THEN
    [lines |-> Append(st.lines, st.currentLine),
     from |-> Append(st.from, idx),
     currentLine |-> st.currentLine + 1]
  ELSE st

\* One iteration of the loop over linesInPatch.  st.lines is the result
\* slice, st.currentLine the running counter; st.from records, for every
\* emitted number, the index of the patch line that emitted it.
ParsePatchLine(st, line, idx) ==
  IF HasPrefix(line, <<"@", "@">>) THEN
    LET matches == FindStringSubmatch(line)
    IN  IF matches.ok
        THEN [st EXCEPT !.currentLine = Atoi(matches.start)]
        ELSE st
  ELSE IF HasPrefix(line, <<"+">>) THEN
    [lines |-> Append(st.lines, st.currentLine),
     from |-> Append(st.from, idx),
     currentLine |-> st.currentLine + 1]
  ELSE IF HasPrefix(line, <<" ">>) THEN
    [st EXCEPT !.currentLine = st.currentLine + 1]
  ELSE st

RECURSIVE ParsePatchLoop(_, _, _)
ParsePatchLoop(ls, i, st) ==
  IF i > Len(ls) THEN st
  ELSE ParsePatchLoop(ls, i + 1, ParsePatchLine(st, ls[i], i))

ParsePatchRun(patch) ==
  ParsePatchLoop(Split(patch), 1,
                 [lines |-> <<>>, from |-> <<>>, currentLine |-> 0])

ParsePatch(patch) == ParsePatchRun(patch).lines

\* ------------------------------------------------------------------------
\* Patch inputs.  A patch is described line by line: a hunk header with its
\* new-range start, or a line of text.  PatchText writes the description out
\* as unified-diff text, giving every header the counts of the lines that
\* follow it, the way git prints them (",count" is omitted when it is 1).
\* ------------------------------------------------------------------------
\* new-range starts of the hunk headers
HunkStarts == {0, 12}

AddedLine == <<"+">>
AddedPlusPlus == <<"+", "+", "+">>
ContextLine == <<" ">>
RemovedLine == <<"-">>
NoNewlineMarker == <<"\\">>
MalformedHeader == <<"@", "@">>

HunkLines == {AddedLine, AddedPlusPlus, ContextLine, RemovedLine, NoNewlineMarker}

PatchItems ==
  [k : {"hunk"}, start : HunkStarts, text : {<<>>}]
    \cup [k : {"line"}, start : {0}, text : HunkLines \cup {MalformedHeader}]

\* decimal text of n, 0 <= n <= 99
Itoa(n) ==
  IF n < 10 THEN <<Digits[n + 1]>>
  ELSE <<Digits[(n \div 10) + 1], Digits[(n % 10) + 1]>>

\* index of the last item of the segment that starts at item h
RECURSIVE SegmentEnd(_, _)
SegmentEnd(items, h) ==
  IF h + 1 > Len(items) \/ items[h + 1].k = "hunk"
     \/ items[h + 1].text = MalformedHeader
  THEN h ELSE SegmentEnd(items, h + 1)

CountIn(items, lo, hi, prefixes) ==
  Cardinality({j \in lo..hi : \E p \in prefixes : HasPrefix(items[j].text, p)})

RangeText(start, count) ==
  IF count = 1 THEN Itoa(start) ELSE Itoa(start) \o <<",">> \o Itoa(count)

HeaderText(items, h) ==
  <<"@", "@", " ", "-">>
    \o RangeText(items[h].start,
                 CountIn(items, h + 1, SegmentEnd(items, h), {<<" ">>, <<"-">>}))
    \o <<" ", "+">>
    \o RangeText(items[h].start,
                 CountIn(items, h + 1, SegmentEnd(items, h), {<<" ">>, <<"+">>}))
    \o <<" ", "@", "@">>

ItemText(items, i) ==
  IF items[i].k = "hunk" THEN HeaderText(items, i) ELSE items[i].text

RECURSIVE JoinFrom(_, _)
JoinFrom(items, i) ==
  IF i > Len(items) THEN <<>>
  ELSE IF i = Len(items) THEN ItemText(items, i)
  ELSE ItemText(items, i) \o <<"\n">> \o JoinFrom(items, i + 1)

PatchText(items) == JoinFrom(items, 1)

PatchInputs == UNION {[1..n -> PatchItems] : n \in 0..MaxPatchLines}

\* ------------------------------------------------------------------------
\* lsp.Client
\* ------------------------------------------------------------------------
\* goroutines of the two-caller harness that call Client.Call
Callers == {"c1", "c2"}

\* the goroutine that runs BuildPRSession and FindReferences
Main == "main"

Threads == Callers \cup {Main}

\* a Location of a textDocument/references result
LocX ==
  [URI |-> <<"f", "i", "l", "e", ":", "/", "/", "/", "r", "/", "x", ".", "g", "o">>,
   Line |-> 0, Start |-> 5, End |-> 6]

LocY ==
  [URI |-> <<"f", "i", "l", "e", ":", "/", "/", "/", "r", "/", "y", ".", "g", "o">>,
   Line |-> 7, Start |-> 2, End |-> 3]

\* json.RawMessage of a response without a "result" member (an error
\* response)
Nil == [kind |-> "nil", locs |-> <<>>]

\* a result that is a JSON object, as the result of initialize is
ResObj == [kind |-> "obj", locs |-> <<>>]

\* a result that is a JSON array of Locations
ResLocs(locs) == [kind |-> "locs", locs |-> locs]

\* make(chan json.RawMessage, 1)
ChanCap == 1

NewChan == [buf |-> <<>>, closed |-> FALSE]

NoRet == [res |-> Nil, err |-> "none"]

\* ------------------------------------------------------------------------
\* State
\* ------------------------------------------------------------------------
VARIABLES
  patchSrc,      \* the description the patch text was written from
  patch,         \* ParsePatch's argument: the diff text
  changedLines,  \* ParsePatch's result
  emittedAt,     \* for each result element, the patch line that emitted it
  patchPc,       \* "input" before ParsePatch has run, "parsed" after
  proc,          \* Client.cmd: "none", "running", "exited"
  stdin,         \* what has been written to Client.stdin, oldest first
  stdinClosed,   \* Client.stdin has been closed
  stdout,        \* what the analyzer wrote and readLoop has not read yet
  framesSent,    \* every frame the analyzer has written so far
  framesRead,    \* every response readLoop has decoded and looked up so far
  seq,           \* Client.seq
  pending,       \* Client.pending: request id -> channel (named by its id)
  chans,         \* the channels made by Call, by the id of the Call
  readerPc,      \* readLoop: "read", "deliver", "exited"
  readerMsg,     \* readLoop: the message being delivered
  callPc,        \* per goroutine: "idle", "registered", "waiting", "returned",
                 \* "crashed"
  callId,        \* per goroutine: the id of its current Call
  callArg,       \* per goroutine: method and params of its current Call
  callRet,       \* per goroutine: what its last Call returned
  frPc,          \* FindReferences: where the call is
  frPath,        \* FindReferences: the filePath argument
  frInput,       \* FindReferences: the spans argument as it was passed
  frSpans,       \* FindReferences: the spans slice
  frI,           \* FindReferences: index of the span the loop is at
  frErr,         \* FindReferences: the error it returned
  frOutcome,     \* FindReferences: how the query of each span ended
  closeCount,    \* number of Client.Close invocations in this call
  prFiles,       \* BuildPRSession: the files of the pull request
  bpPc,          \* BuildPRSession: where the call is
  bpI,           \* BuildPRSession: index of the file the loop is at
  bpSpans,       \* BuildPRSession: what AnalyzeFile returned for that file
  files,         \* BuildPRSession: the FileDiff list built so far
  anPath,        \* AnalyzeFile: the filePath argument
  anLines,       \* AnalyzeFile: the changedLines argument
  anSpans,       \* AnalyzeFile: the spans it returned
  anKeys,        \* for each returned span, the key of its syntax node
  anPc,          \* "input" before AnalyzeFile has run, "analyzed" after
  ctxCancelled,  \* the ctx handed to BuildPRSession has been cancelled
  session,       \* server.Start: the files of the session it serves
  uiFiles,       \* App: the files state
  expanded,      \* FileNode: the expanded state of each main file card
  fetchReq,      \* App.fetchSession: the request in flight
  fetches,       \* number of fetchSession calls so far
  anReqs,        \* App.analyzeFile: the /analyze requests issued so far
  handlers,      \* server.Start: the handler goroutines of the requests
                 \* being served, statement by statement
  sessionMu      \* server.Start: the RWMutex, its writer and its readers

patchVars == <<patchSrc, patch, changedLines, emittedAt, patchPc>>

analyzeVars == <<anPath, anLines, anSpans, anKeys, anPc>>

\* the handler goroutines and the lock they share
lockVars == <<handlers, sessionMu>>

uiVars == <<session, uiFiles, expanded, fetchReq, fetches, anReqs, lockVars>>

\* state that no step of the Client, FindReferences or BuildPRSession writes
sideVars == <<patchVars, analyzeVars, ctxCancelled, uiVars>>

\* the record of the frames written and read
frameLog == <<framesSent, framesRead>>

procVars == <<proc, stdin, stdinClosed, stdout, frameLog>>

clientVars == <<seq, pending, chans, readerPc, readerMsg>>

callVars == <<callPc, callId, callArg, callRet>>

frVars == <<frPc, frPath, frInput, frSpans, frI, frErr, frOutcome, closeCount>>

buildVars == <<prFiles, bpPc, bpI, bpSpans, files>>

\* everything outside the Client and its callers
hostVars == <<sideVars, frVars, buildVars>>

\* everything outside the server's session and the web page, and the
\* goroutines of the handlers where a handler is taken as one step
backendVars == <<patchVars, analyzeVars, ctxCancelled, procVars, clientVars,
                 callVars, frVars, buildVars, lockVars>>

vars == <<sideVars, procVars, clientVars, callVars, frVars, buildVars>>

PatchIdle ==
  /\ patchSrc = <<>>
  /\ patch = <<>>
  /\ changedLines = <<>>
  /\ emittedAt = <<>>
  /\ patchPc = "input"

\* useState(false) for isLoading: no fetch in flight
NoFetch == [pc |-> "idle", refresh |-> FALSE, ok |-> FALSE, body |-> <<>>]

\* var sessionMu sync.RWMutex: the zero value, held by nobody; handlers are
\* named 1, 2, ..., and 0 is no handler
Unlocked == [writer |-> 0, readers |-> {}]

\* no server is running and no page is open
UIIdle ==
  /\ session = <<>>
  /\ uiFiles = <<>>
  /\ expanded = <<>>
  /\ fetchReq = NoFetch
  /\ fetches = 0
  /\ anReqs = <<>>
  /\ handlers = <<>>
  /\ sessionMu = Unlocked

\* AnalyzeFile has not been called on its own
AnalyzeIdle ==
  /\ anPath = <<>>
  /\ anLines = <<>>
  /\ anSpans = <<>>
  /\ anKeys = <<>>
  /\ anPc = "input"

CallsIdle ==
  /\ callPc = [t \in Threads |-> "idle"]
  /\ callId = [t \in Threads |-> 0]
  /\ callArg = [t \in Threads |-> [method |-> "", ok |-> TRUE]]
  /\ callRet = [t \in Threads |-> NoRet]

\* FindReferences is not running
FindReferencesIdle ==
  /\ frPc = "idle"
  /\ frPath = <<>>
  /\ frInput = <<>>
  /\ frSpans = <<>>
  /\ frI = 0
  /\ frErr = "none"
  /\ frOutcome = <<>>
  /\ closeCount = 0

\* BuildPRSession is not running
BuildIdle ==
  /\ prFiles = <<>>
  /\ bpPc = "idle"
  /\ bpI = 0
  /\ bpSpans = <<>>
  /\ files = <<>>

\* no Client exists
ClientIdle ==
  /\ proc = "none"
  /\ stdin = <<>>
  /\ stdinClosed = FALSE
  /\ stdout = <<>>
  /\ framesSent = {}
  /\ framesRead = {}
  /\ seq = 0
  /\ pending = <<>>
  /\ chans = <<>>
  /\ readerPc = "exited"
  /\ readerMsg = [id |-> 0, result |-> Nil]

\* the Client NewClient returns: process started, empty table, readLoop
\* running
ClientFresh ==
  /\ proc = "running"
  /\ stdin = <<>>
  /\ stdinClosed = FALSE
  /\ stdout = <<>>
  /\ framesSent = {}
  /\ framesRead = {}
  /\ seq = 0
  /\ pending = <<>>
  /\ chans = <<>>
  /\ readerPc = "read"
  /\ readerMsg = [id |-> 0, result |-> Nil]

InitPatch ==
  /\ ctxCancelled = FALSE
  /\ UIIdle
  /\ AnalyzeIdle
  /\ patchSrc \in PatchInputs
  /\ patch = PatchText(patchSrc)
  /\ changedLines = <<>>
  /\ emittedAt = <<>>
  /\ patchPc = "input"
  /\ ClientIdle
  /\ CallsIdle
  /\ FindReferencesIdle
  /\ BuildIdle

\* changedLines, err := ParsePatch(f.Patch)
CallParsePatch ==
  /\ patchPc = "input"
  /\ LET run == ParsePatchRun(patch)
     IN  /\ changedLines' = run.lines
         /\ emittedAt' = run.from
  /\ patchPc' = "parsed"
  /\ UNCHANGED <<patchSrc, patch, analyzeVars, ctxCancelled, uiVars, procVars,
                 clientVars, callVars, frVars, buildVars>>

NextPatch == CallParsePatch

SpecPatch == InitPatch /\ [][NextPatch]_vars

\* CallRegister reading the next id without storing it: id := c.seq + 1
\* with c.seq left as it was
CallRegister_NoIncrement(t, method, ok) ==
  /\ callPc[t] \in {"idle", "returned"}
  /\ seq' = seq
  /\ pending' = ((seq + 1) :> (seq + 1)) @@ pending
  /\ chans' = ((seq + 1) :> NewChan) @@ chans
  /\ callPc' = [callPc EXCEPT ![t] = "registered"]
  /\ callId' = [callId EXCEPT ![t] = seq + 1]
  /\ callArg' = [callArg EXCEPT ![t] = [method |-> method, ok |-> ok]]
  /\ callRet' = [callRet EXCEPT ![t] = NoRet]
  /\ UNCHANGED <<readerPc, readerMsg>>

\* CallRegister making the channel without storing it in the table: the
\* line c.pending[id] = ch left out
CallRegister_NoSlot(t, method, ok) ==
  /\ callPc[t] \in {"idle", "returned"}
  /\ seq' = seq + 1
  /\ pending' = pending
  /\ chans' = ((seq + 1) :> NewChan) @@ chans
  /\ callPc' = [callPc EXCEPT ![t] = "registered"]
  /\ callId' = [callId EXCEPT ![t] = seq + 1]
  /\ callArg' = [callArg EXCEPT ![t] = [method |-> method, ok |-> ok]]
  /\ callRet' = [callRet EXCEPT ![t] = NoRet]
  /\ UNCHANGED <<readerPc, readerMsg>>

\* ------------------------------------------------------------------------
\* Client.Call, one action per step another goroutine can interleave with
\* ------------------------------------------------------------------------
\* c.mu.Lock(); c.seq++; id := c.seq; ch := make(...); c.pending[id] = ch;
\* c.mu.Unlock()
CallRegister(t, method, ok) ==
  /\ callPc[t] \in {"idle", "returned"}
  /\ seq' = seq + 1
  /\ pending' = ((seq + 1) :> (seq + 1)) @@ pending
  /\ chans' = ((seq + 1) :> NewChan) @@ chans
  /\ callPc' = [callPc EXCEPT ![t] = "registered"]
  /\ callId' = [callId EXCEPT ![t] = seq + 1]
  /\ callArg' = [callArg EXCEPT ![t] = [method |-> method, ok |-> ok]]
  /\ callRet' = [callRet EXCEPT ![t] = NoRet]
  /\ UNCHANGED <<readerPc, readerMsg>>

\* json.Marshal(req) and c.stdin.Write: either can fail, and Call then
\* returns the error; otherwise the request is on its way and Call waits
CallSend(t) ==
  /\ callPc[t] = "registered"
  /\ IF ~callArg[t].ok
     THEN /\ callRet' = [callRet EXCEPT ![t] = [res |-> Nil, err |-> "marshal"]]
          /\ callPc' = [callPc EXCEPT ![t] = "returned"]
          /\ UNCHANGED stdin
     ELSE IF stdinClosed \/ proc # "running"
     THEN /\ callRet' = [callRet EXCEPT ![t] = [res |-> Nil, err |-> "write"]]
          /\ callPc' = [callPc EXCEPT ![t] = "returned"]
          /\ UNCHANGED stdin
     ELSE /\ stdin' = Append(stdin, [id |-> callId[t], method |-> callArg[t].method])
          /\ callPc' = [callPc EXCEPT ![t] = "waiting"]
          /\ UNCHANGED callRet
  /\ UNCHANGED <<hostVars, proc, stdinClosed, stdout, frameLog, clientVars,
                 callId, callArg>>

\* case res := <-ch: a buffered value, or the zero value of a closed channel
CallReceive(t) ==
  /\ callPc[t] = "waiting"
  /\ chans[callId[t]].buf # <<>> \/ chans[callId[t]].closed
  /\ callRet' = [callRet EXCEPT ![t] =
       [res |-> IF chans[callId[t]].buf # <<>>
                THEN Head(chans[callId[t]].buf) ELSE Nil,
        err |-> "none"]]
  /\ chans' = [chans EXCEPT ![callId[t]].buf =
       IF @ # <<>> THEN Tail(@) ELSE @]
  /\ callPc' = [callPc EXCEPT ![t] = "returned"]
  /\ UNCHANGED <<hostVars, procVars, seq, pending, readerPc, readerMsg,
                 callId, callArg>>

\* case <-time.After(10 * time.Second): the timer can win the select
\* whether or not a value is ready
CallTimeout(t) ==
  /\ callPc[t] = "waiting"
  /\ callRet' = [callRet EXCEPT ![t] = [res |-> Nil, err |-> "timeout"]]
  /\ callPc' = [callPc EXCEPT ![t] = "returned"]
  /\ UNCHANGED <<hostVars, procVars, clientVars, callId, callArg>>

\* ------------------------------------------------------------------------
\* The transport: what the analyzer writes to its standard output.  The
\* stream is a sequence of units: a unit is either a line of text with its
\* line end, or one body byte.  A JSON body is written as one unit, so the
\* Content-Length of a well-formed frame is 1.
\* ------------------------------------------------------------------------
\* the header name readLoop looks for; CutPrefix(line, "Content-Length: ")
\* succeeds on the lines that start with this name, a colon and a space
ContentLength == "Content-Length"

\* the line "<name>: <value>\r\n"; the empty name and value make "\r\n"
HeaderLine(name, value) ==
  [t |-> "line", name |-> name, text |-> value, id |-> 0, result |-> Nil]

\* the empty line that ends the header
BlankLine == HeaderLine("", <<>>)

\* a body: t is "response" (a JSON object with an integer id), "notification"
\* (a JSON object without id), "idstring" (a JSON object whose id is a
\* string) or "garbage" (not JSON)
Body(t, id, result) ==
  [t |-> t, name |-> "", text |-> <<>>, id |-> id, result |-> result]

\* the shapes a frame can have
WellFormed == "ok"

MalformedForms ==
  {"no length", "zero length", "negative length", "non-numeric length",
   "not json", "string id"}

\* the text after "Content-Length: " in a frame of the given form
LengthText(form) ==
  IF form = "zero length" THEN <<"0">>
  ELSE IF form = "negative length" THEN <<"-", "1">>
  ELSE IF form = "non-numeric length" THEN <<"x">>
  ELSE Itoa(1)

BodyOf(f) ==
  IF f.form = "not json" THEN Body("garbage", 0, Nil)
  ELSE IF f.form = "string id" THEN Body("idstring", 0, f.result)
  ELSE IF f.form = "notification" THEN Body("notification", 0, Nil)
  ELSE Body("response", f.id, f.result)

\* the units of the frame f = [form, id, result]
Wire(f) ==
  IF f.form = "no length" THEN <<BlankLine, BodyOf(f)>>
  ELSE <<HeaderLine(ContentLength, LengthText(f.form)), BlankLine, BodyOf(f)>>

\* ------------------------------------------------------------------------
\* Client.readLoop
\* ------------------------------------------------------------------------
\* strconv.Atoi with its error dropped: an optional sign and decimal digits,
\* 0 for anything else
StrconvAtoi(s) ==
  LET signed == s # <<>> /\ s[1] \in {"+", "-"}
      ds == IF signed THEN Tail(s) ELSE s
  IN  IF ds = <<>> \/ \E k \in 1..Len(ds) : ~IsDigit(ds[k]) THEN 0
      ELSE IF s[1] = "-" THEN 0 - Atoi(ds)
      ELSE Atoi(ds)

\* lines 61-73, the header loop from unit i on: reader.ReadString('\n')
\* takes everything up to the next line end, so body bytes left in front of
\* a line become part of it (dirty); the loop ends at an empty line
RECURSIVE HeaderLoop(_, _, _, _)
HeaderLoop(s, i, contentLength, dirty) ==
  IF i > Len(s)
  THEN [done |-> FALSE, contentLength |-> contentLength, next |-> i]
  ELSE IF s[i].t # "line" THEN HeaderLoop(s, i + 1, contentLength, TRUE)
  ELSE IF dirty THEN HeaderLoop(s, i + 1, contentLength, FALSE)
  ELSE IF s[i] = BlankLine
  THEN [done |-> TRUE, contentLength |-> contentLength, next |-> i + 1]
  ELSE IF s[i].name = ContentLength
  THEN HeaderLoop(s, i + 1, StrconvAtoi(s[i].text), FALSE)
  ELSE HeaderLoop(s, i + 1, contentLength, FALSE)

NoMsg == [hasId |-> FALSE, id |-> 0, result |-> Nil]

\* json.Unmarshal(body, &msg), lines 86-93
UnmarshalMsg(body) ==
  IF Len(body) = 1 /\ body[1].t \in {"response", "notification"}
  THEN [ok |-> TRUE,
        msg |-> [hasId |-> body[1].t = "response", id |-> body[1].id,
                 result |-> body[1].result]]
  ELSE [ok |-> FALSE, msg |-> NoMsg]

\* lines 58-93, one pass of the outer loop over the stream s: "blocked" when
\* the header or the body is not all there yet, "skip" for the two continue
\* statements, "panic" when make([]byte, contentLength) is given a negative
\* length, "message" when a body was decoded
ReadFrame(s) ==
  LET h == HeaderLoop(s, 1, 0, FALSE)
      n == h.contentLength
  IN  IF ~h.done THEN [status |-> "blocked", rest |-> s, msg |-> NoMsg]
      ELSE IF n = 0
      THEN [status |-> "skip", rest |-> SubSeq(s, h.next, Len(s)), msg |-> NoMsg]
      ELSE IF n < 0
      THEN [status |-> "panic", rest |-> SubSeq(s, h.next, Len(s)), msg |-> NoMsg]
      ELSE IF Len(s) < h.next + n - 1
      THEN [status |-> "blocked", rest |-> s, msg |-> NoMsg]
      ELSE LET u == UnmarshalMsg(SubSeq(s, h.next, h.next + n - 1))
           IN  [status |-> IF u.ok THEN "message" ELSE "skip",
                rest |-> SubSeq(s, h.next + n, Len(s)),
                msg |-> u.msg]

\* readLoop taking responses to arrive in request order: the frame goes to
\* the oldest pending Call whatever id it carries
ReadLoopFrame_Fifo ==
  /\ readerPc = "read"
  /\ \E f \in {ReadFrame(stdout)} :
         /\ f.status # "blocked"
         /\ stdout' = f.rest
         /\ framesRead' = IF f.status = "message" /\ f.msg.hasId
                          THEN framesRead \cup {[id |-> f.msg.id,
                                                 result |-> f.msg.result]}
                          ELSE framesRead
         /\ IF f.status = "panic"
            THEN /\ readerPc' = "panicked"
                 /\ callPc' = [t \in Threads |-> "crashed"]
                 /\ UNCHANGED <<readerMsg, pending>>
            ELSE IF f.status = "message" /\ f.msg.hasId /\ DOMAIN pending # {}
            THEN LET first == CHOOSE i \in DOMAIN pending :
                                \A j \in DOMAIN pending : i <= j
                 IN  /\ readerMsg' = [id |-> pending[first],
                                      result |-> f.msg.result]
                     /\ pending' = [i \in DOMAIN pending \ {first} |-> pending[i]]
                     /\ readerPc' = "deliver"
            ELSE UNCHANGED <<readerMsg, pending, readerPc>>
         /\ f.status # "panic" => callPc' = callPc
  /\ UNCHANGED <<hostVars, proc, stdin, stdinClosed, framesSent, seq, chans,
                 callId, callArg, callRet>>

\* readLoop returning when a frame carries an id that is not pending
ReadLoopFrame_StopOnUnknown ==
  /\ readerPc = "read"
  /\ \E f \in {ReadFrame(stdout)} :
         /\ f.status # "blocked"
         /\ stdout' = f.rest
         /\ framesRead' = IF f.status = "message" /\ f.msg.hasId
                          THEN framesRead \cup {[id |-> f.msg.id,
                                                 result |-> f.msg.result]}
                          ELSE framesRead
         /\ IF f.status = "panic"
            THEN /\ readerPc' = "panicked"
                 /\ callPc' = [t \in Threads |-> "crashed"]
                 /\ UNCHANGED <<readerMsg, pending>>
            ELSE IF f.status = "message" /\ f.msg.hasId
            THEN IF f.msg.id \in DOMAIN pending
                 THEN /\ readerMsg' = [id |-> pending[f.msg.id],
                                       result |-> f.msg.result]
                      /\ pending' = [i \in DOMAIN pending \ {f.msg.id} |->
                                       pending[i]]
                      /\ readerPc' = "deliver"
                 ELSE /\ readerPc' = "exited"
                      /\ UNCHANGED <<readerMsg, pending>>
            ELSE UNCHANGED <<readerMsg, pending, readerPc>>
         /\ f.status # "panic" => callPc' = callPc
  /\ UNCHANGED <<hostVars, proc, stdin, stdinClosed, framesSent, seq, chans,
                 callId, callArg, callRet>>

\* ReadLoopFrame without the delete: the entry stays in the table after its
\* response has been looked up
ReadLoopFrame_KeepEntry ==
  /\ readerPc = "read"
  /\ \E f \in {ReadFrame(stdout)} :
         /\ f.status # "blocked"
         /\ stdout' = f.rest
         /\ framesRead' = IF f.status = "message" /\ f.msg.hasId
                          THEN framesRead \cup {[id |-> f.msg.id,
                                                 result |-> f.msg.result]}
                          ELSE framesRead
         /\ IF f.status = "panic"
            THEN /\ readerPc' = "panicked"
                 /\ callPc' = [t \in Threads |-> "crashed"]
                 /\ UNCHANGED <<readerMsg, pending>>
            ELSE IF /\ f.status = "message"
                    /\ f.msg.hasId
                    /\ f.msg.id \in DOMAIN pending
            THEN /\ readerMsg' = [id |-> pending[f.msg.id],
                                  result |-> f.msg.result]
                 /\ pending' = pending
                 /\ readerPc' = "deliver"
            ELSE UNCHANGED <<readerMsg, pending, readerPc>>
         /\ f.status # "panic" => callPc' = callPc
  /\ UNCHANGED <<hostVars, proc, stdin, stdinClosed, framesSent, seq, chans,
                 callId, callArg, callRet>>

\* lines 58-107, one pass of the outer loop: header, body, json.Unmarshal,
\* then the lookup and delete under c.mu; a frame that is skipped, carries no
\* id or carries an id that is not pending changes nothing.  The panic of
\* make([]byte, contentLength) is not recovered: it ends the process, and
\* every goroutine with it
ReadLoopFrame ==
  /\ readerPc = "read"
  /\ \E f \in {ReadFrame(stdout)} :
         /\ f.status # "blocked"
         /\ stdout' = f.rest
         /\ framesRead' = IF f.status = "message" /\ f.msg.hasId
                          THEN framesRead \cup {[id |-> f.msg.id,
                                                 result |-> f.msg.result]}
                          ELSE framesRead
         /\ IF f.status = "panic"
            THEN /\ readerPc' = "panicked"
                 /\ callPc' = [t \in Threads |-> "crashed"]
                 /\ UNCHANGED <<readerMsg, pending>>
            ELSE IF /\ f.status = "message"
                    /\ f.msg.hasId
                    /\ f.msg.id \in DOMAIN pending
            THEN /\ readerMsg' = [id |-> pending[f.msg.id],
                                  result |-> f.msg.result]
                 /\ pending' = [i \in DOMAIN pending \ {f.msg.id} |-> pending[i]]
                 /\ readerPc' = "deliver"
            ELSE UNCHANGED <<readerMsg, pending, readerPc>>
         /\ f.status # "panic" => callPc' = callPc
  /\ UNCHANGED <<hostVars, proc, stdin, stdinClosed, framesSent, seq, chans,
                 callId, callArg, callRet>>

\* ch <- msg.Result; close(ch)
ReadLoopDeliver ==
  /\ readerPc = "deliver"
  /\ Len(chans[readerMsg.id].buf) < ChanCap
  /\ chans' = [chans EXCEPT ![readerMsg.id] =
       [buf |-> Append(@.buf, readerMsg.result), closed |-> TRUE]]
  /\ readerPc' = "read"
  /\ UNCHANGED <<hostVars, procVars, seq, pending, readerMsg, callVars>>

\* reader.ReadString / io.ReadFull return an error once the process has
\* exited and what is left of its output is not a whole header or body
ReadLoopEOF ==
  /\ readerPc = "read"
  /\ proc = "exited"
  /\ ReadFrame(stdout).status = "blocked"
  /\ readerPc' = "exited"
  /\ UNCHANGED <<hostVars, procVars, seq, pending, chans, readerMsg, callVars>>

\* ------------------------------------------------------------------------
\* The analyzer process
\* ------------------------------------------------------------------------
\* results a harness response can carry
Results == {ResObj, ResLocs(<<>>)}

\* distinct frames the analyzer writes in one session, at most
MaxFrames == 2

\* the analyzer writes a frame of one of the forms: any id allocated so far
\* or the next one, any result (Nil is a response with "error" and no
\* "result"); at most one frame (three units) is waiting to be read when it
\* writes
AnalyzerWrite(forms, results) ==
  /\ proc = "running"
  /\ Len(stdout) <= 3
  /\ Cardinality(framesSent) < MaxFrames
  /\ \E form \in forms, i \in 1..(seq + 1), r \in results :
       LET f == [form |-> form, id |-> i, result |-> r]
       IN  /\ f \notin framesSent
           /\ stdout' = stdout \o Wire(f)
           /\ framesSent' = framesSent \cup {f}
  /\ UNCHANGED <<hostVars, proc, stdin, stdinClosed, framesRead, clientVars,
                 callVars>>

\* the analyzer writes a well-formed response frame
AnalyzerRespond(results) == AnalyzerWrite({WellFormed}, results)

\* the analyzer process ends
AnalyzerExit ==
  /\ proc = "running"
  /\ proc' = "exited"
  /\ UNCHANGED <<hostVars, stdin, stdinClosed, stdout, frameLog, clientVars,
                 callVars>>

\* ------------------------------------------------------------------------
\* Two goroutines calling Call on one Client
\* ------------------------------------------------------------------------
\* Calls made on the harness Client, at most
MaxSeq == 2

InitClient ==
  /\ ctxCancelled = FALSE
  /\ UIIdle
  /\ AnalyzeIdle
  /\ PatchIdle
  /\ ClientFresh
  /\ CallsIdle
  /\ FindReferencesIdle
  /\ BuildIdle

\* main.go line 47: the context of signal.NotifyContext is cancelled by an
\* interrupt signal, at any moment
CancelContext ==
  /\ ~ctxCancelled
  /\ ctxCancelled' = TRUE
  /\ UNCHANGED <<patchVars, analyzeVars, uiVars, procVars, clientVars,
                 callVars, frVars, buildVars>>

StartCall ==
  \E t \in Callers, ok \in BOOLEAN :
    /\ seq < MaxSeq
    /\ CallRegister(t, "m", ok)
    /\ UNCHANGED <<hostVars, procVars>>

NextClient ==
  \/ StartCall
  \/ \E t \in Callers : CallSend(t)
  \/ \E t \in Callers : CallReceive(t)
  \/ \E t \in Callers : CallTimeout(t)
  \/ ReadLoopFrame
  \/ ReadLoopDeliver
  \/ ReadLoopEOF
  \/ AnalyzerRespond(Results)
  \/ AnalyzerExit
  \/ CancelContext

SpecClient == InitClient /\ [][NextClient]_vars

\* ------------------------------------------------------------------------
\* The same harness with an analyzer that also writes notifications and
\* malformed frames
\* ------------------------------------------------------------------------
AnalyzerWriteOther ==
  AnalyzerWrite(MalformedForms \cup {"notification"}, {ResObj})

NextReader ==
  \/ NextClient
  \/ AnalyzerWriteOther

SpecReader == InitClient /\ [][NextReader]_vars

\* ------------------------------------------------------------------------
\* lsp.FindReferences
\* ------------------------------------------------------------------------
GoPath == <<"a", ".", "g", "o">>
TsPath == <<"b", ".", "t", "s">>
MdPath == <<"c", ".", "m", "d">>

\* strings.HasSuffix
HasSuffix(s, p) ==
  Len(s) >= Len(p) /\ SubSeq(s, Len(s) - Len(p) + 1, Len(s)) = p

\* strings.TrimPrefix
TrimPrefix(s, p) ==
  IF HasPrefix(s, p) THEN SubSeq(s, Len(p) + 1, Len(s)) ELSE s

FileFromURI(uri) == TrimPrefix(uri, <<"f", "i", "l", "e", ":", "/", "/">>)

\* the root argument of FindReferences: the absolute path of the repository
Root == <<"/", "r">>

\* URIFromFile for a path that starts with "/"
URIFromFile(path) == <<"f", "i", "l", "e", ":", "/", "/">> \o path

\* LspCommand falling back to gopls instead of picking no command
LspCommand_DefaultGopls(filePath) ==
  IF HasSuffix(filePath, <<".", "g", "o">>) THEN "gopls"
  ELSE IF \/ HasSuffix(filePath, <<".", "t", "s">>)
          \/ HasSuffix(filePath, <<".", "t", "s", "x">>)
          \/ HasSuffix(filePath, <<".", "j", "s">>)
       THEN "typescript-language-server"
  ELSE "gopls"

\* the command FindReferences picks for a path, "" when it picks none
LspCommand(filePath) ==
  IF HasSuffix(filePath, <<".", "g", "o">>) THEN "gopls"
  ELSE IF \/ HasSuffix(filePath, <<".", "t", "s">>)
          \/ HasSuffix(filePath, <<".", "t", "s", "x">>)
          \/ HasSuffix(filePath, <<".", "j", "s">>)
       THEN "typescript-language-server"
  ELSE ""

\* json.Unmarshal(res, &locations)
Unmarshal(res) ==
  IF res.kind = "locs" THEN [ok |-> TRUE, locations |-> res.locs]
  ELSE [ok |-> FALSE, locations |-> <<>>]

\* ReferenceOf keeping the Location's 0-based line
ReferenceOf_ZeroBasedLine(loc) ==
  [Path |-> FileFromURI(loc.URI), Line |-> loc.Line,
   Start |-> loc.Start, End |-> loc.End]

\* the types.Reference appended for one Location
ReferenceOf(loc) ==
  [Path |-> FileFromURI(loc.URI), Line |-> loc.Line + 1,
   Start |-> loc.Start, End |-> loc.End]

RECURSIVE ReferencesOf(_)
ReferencesOf(locations) ==
  IF locations = <<>> THEN <<>>
  ELSE <<ReferenceOf(Head(locations))>> \o ReferencesOf(Tail(locations))

\* Client.Notify: the frame is written unless the write fails; the error is
\* dropped by FindReferences
Notify(method) ==
  IF stdinClosed \/ proc # "running" THEN stdin
  ELSE Append(stdin, [id |-> 0, method |-> method])

\* NewClient succeeds: the process runs, the table is empty and readLoop is
\* started
NewClient ==
  /\ proc' = "running"
  /\ stdin' = <<>>
  /\ stdinClosed' = FALSE
  /\ stdout' = <<>>
  /\ framesSent' = {}
  /\ framesRead' = {}
  /\ seq' = 0
  /\ pending' = <<>>
  /\ chans' = <<>>
  /\ readerPc' = "read"
  /\ readerMsg' = [id |-> 0, result |-> Nil]

\* the Client of an earlier FindReferences call and the locals of its Calls
\* are gone
NoClient ==
  /\ proc' = "none"
  /\ stdin' = <<>>
  /\ stdinClosed' = FALSE
  /\ stdout' = <<>>
  /\ framesSent' = {}
  /\ framesRead' = {}
  /\ seq' = 0
  /\ pending' = <<>>
  /\ chans' = <<>>
  /\ readerPc' = "exited"
  /\ readerMsg' = [id |-> 0, result |-> Nil]
  /\ callPc' = [t \in Threads |-> "idle"]
  /\ callId' = [t \in Threads |-> 0]
  /\ callArg' = [t \in Threads |-> [method |-> "", ok |-> TRUE]]
  /\ callRet' = [t \in Threads |-> NoRet]

\* FindReferences is entered with its arguments
EnterFindReferences(spans, filePath) ==
  /\ frPc' = "select"
  /\ frPath' = filePath
  /\ frInput' = spans
  /\ frSpans' = spans
  /\ frI' = 0
  /\ frErr' = "none"
  /\ frOutcome' = [i \in 1..Len(spans) |-> "none"]
  /\ closeCount' = 0

\* lines 225-233: no command for this path, return spans, nil
FRUnsupported ==
  /\ frPc = "select"
  /\ LspCommand(frPath) = ""
  /\ frPc' = "returned"
  /\ UNCHANGED <<frPath, frInput, frSpans, frI, frErr, frOutcome, closeCount>>
  /\ UNCHANGED <<sideVars, buildVars, procVars, clientVars, callVars>>

\* lines 235-238: NewClient fails, return spans and the error
FRSpawnFails ==
  /\ frPc = "select"
  /\ LspCommand(frPath) # ""
  /\ frPc' = "returned"
  /\ frErr' = "start"
  /\ UNCHANGED <<frPath, frInput, frSpans, frI, frOutcome, closeCount>>
  /\ UNCHANGED <<sideVars, buildVars, procVars, clientVars, callVars>>

\* lines 235-239: NewClient succeeds; Close is deferred
FRSpawn ==
  /\ frPc = "select"
  /\ LspCommand(frPath) # ""
  /\ NewClient
  /\ frPc' = "initialize"
  /\ UNCHANGED <<frPath, frInput, frSpans, frI, frErr, frOutcome, closeCount>>
  /\ UNCHANGED <<sideVars, buildVars, callVars>>

\* FRInitialize sending initialize as a notification and going on without
\* waiting for an answer
FRInitialize_NoCall ==
  /\ frPc = "initialize"
  /\ stdin' = Notify("initialize")
  /\ frPc' = "open"
  /\ UNCHANGED <<frPath, frInput, frSpans, frI, frErr, frOutcome, closeCount>>
  /\ UNCHANGED <<sideVars, buildVars, proc, stdinClosed, stdout, frameLog,
                 clientVars, callVars>>

\* line 248: client.Call("initialize", initParams) is entered
FRInitialize ==
  /\ frPc = "initialize"
  /\ CallRegister(Main, "initialize", TRUE)
  /\ frPc' = "initializing"
  /\ UNCHANGED <<frPath, frInput, frSpans, frI, frErr, frOutcome, closeCount>>
  /\ UNCHANGED <<sideVars, buildVars, procVars>>

\* FRInitializeFailed with Close called at the end of the function instead of
\* deferred: the early return skips it
FRInitializeFailed_NoClose ==
  /\ frPc = "initializing"
  /\ callPc[Main] = "returned"
  /\ callRet[Main].err # "none"
  /\ frErr' = "initialize"
  /\ frPc' = "returned"
  /\ UNCHANGED <<frPath, frInput, frSpans, frI, frOutcome, closeCount>>
  /\ UNCHANGED <<sideVars, buildVars, procVars, clientVars, callVars>>

\* lines 248-250: the Call returned an error, return spans and the error
\* (the deferred Close runs)
FRInitializeFailed ==
  /\ frPc = "initializing"
  /\ callPc[Main] = "returned"
  /\ callRet[Main].err # "none"
  /\ frErr' = "initialize"
  /\ frPc' = "close"
  /\ UNCHANGED <<frPath, frInput, frSpans, frI, frOutcome, closeCount>>
  /\ UNCHANGED <<sideVars, buildVars, procVars, clientVars, callVars>>

\* lines 248-251: the Call returned no error; Notify("initialized")
FRInitialized ==
  /\ frPc = "initializing"
  /\ callPc[Main] = "returned"
  /\ callRet[Main].err = "none"
  /\ stdin' = Notify("initialized")
  /\ frPc' = "open"
  /\ UNCHANGED <<frPath, frInput, frSpans, frI, frErr, frOutcome, closeCount>>
  /\ UNCHANGED <<sideVars, buildVars, proc, stdinClosed, stdout, frameLog,
                 clientVars, callVars>>

\* lines 254-276: os.ReadFile, and Notify("textDocument/didOpen") when it
\* succeeds
FRDidOpen ==
  /\ frPc = "open"
  /\ \E readOk \in BOOLEAN :
       stdin' = IF readOk THEN Notify("textDocument/didOpen") ELSE stdin
  /\ frPc' = "loop"
  /\ frI' = 1
  /\ UNCHANGED <<frPath, frInput, frSpans, frErr, frOutcome, closeCount>>
  /\ UNCHANGED <<sideVars, buildVars, proc, stdinClosed, stdout, frameLog,
                 clientVars, callVars>>

\* lines 279-282: a span whose anchor is (0, 0) is passed over
FRSkipSpan ==
  /\ frPc = "loop"
  /\ frI <= Len(frSpans)
  /\ frSpans[frI].RefLine = 0 /\ frSpans[frI].RefCol = 0
  /\ frOutcome' = [frOutcome EXCEPT ![frI] = "skipped"]
  /\ frI' = frI + 1
  /\ UNCHANGED <<frPc, frPath, frInput, frSpans, frErr, closeCount>>
  /\ UNCHANGED <<sideVars, buildVars, procVars, clientVars, callVars>>

\* lines 284-295: client.Call("textDocument/references", params) is entered
FRQuery ==
  /\ frPc = "loop"
  /\ frI <= Len(frSpans)
  /\ ~(frSpans[frI].RefLine = 0 /\ frSpans[frI].RefCol = 0)
  /\ CallRegister(Main, "textDocument/references", TRUE)
  /\ frPc' = "querying"
  /\ UNCHANGED <<frPath, frInput, frSpans, frI, frErr, frOutcome, closeCount>>
  /\ UNCHANGED <<sideVars, buildVars, procVars>>

\* how the query that just returned ended
QueryOutcome ==
  IF callRet[Main].err # "none" THEN callRet[Main].err
  ELSE IF Unmarshal(callRet[Main].res).ok THEN "ok"
  ELSE IF callRet[Main].res = Nil THEN "error response"
  ELSE "decode"

\* all of s but its i-th element
RemoveAt(s, i) == SubSeq(s, 1, i - 1) \o SubSeq(s, i + 1, Len(s))

\* FRQueryReturned dropping a span whose query failed from the list
FRQueryReturned_DropFailed ==
  /\ frPc = "querying"
  /\ callPc[Main] = "returned"
  /\ IF callRet[Main].err = "none" /\ Unmarshal(callRet[Main].res).ok
     THEN /\ frSpans' = [frSpans EXCEPT ![frI].References =
                 @ \o ReferencesOf(Unmarshal(callRet[Main].res).locations)]
          /\ frOutcome' = [frOutcome EXCEPT ![frI] = QueryOutcome]
          /\ frI' = frI + 1
     ELSE /\ frSpans' = RemoveAt(frSpans, frI)
          /\ frOutcome' = RemoveAt(frOutcome, frI)
          /\ frI' = frI
  /\ frPc' = "loop"
  /\ UNCHANGED <<frPath, frInput, frErr, closeCount>>
  /\ UNCHANGED <<sideVars, buildVars, procVars, clientVars, callVars>>

\* FRQueryReturned leaving the loop at the first query that fails
FRQueryReturned_BreakOnError ==
  /\ frPc = "querying"
  /\ callPc[Main] = "returned"
  /\ frSpans' =
       IF callRet[Main].err = "none" /\ Unmarshal(callRet[Main].res).ok
       THEN [frSpans EXCEPT ![frI].References =
               @ \o ReferencesOf(Unmarshal(callRet[Main].res).locations)]
       ELSE frSpans
  /\ frOutcome' = [frOutcome EXCEPT ![frI] = QueryOutcome]
  /\ frI' = IF QueryOutcome = "ok" THEN frI + 1 ELSE Len(frSpans) + 1
  /\ frPc' = "loop"
  /\ UNCHANGED <<frPath, frInput, frErr, closeCount>>
  /\ UNCHANGED <<sideVars, buildVars, procVars, clientVars, callVars>>

\* lines 295-313: the Call returned; on an error or a result that does not
\* decode the span is left alone, otherwise one Reference per Location is
\* appended to it
FRQueryReturned ==
  /\ frPc = "querying"
  /\ callPc[Main] = "returned"
  /\ frSpans' =
       IF callRet[Main].err = "none" /\ Unmarshal(callRet[Main].res).ok
       THEN [frSpans EXCEPT ![frI].References =
               @ \o ReferencesOf(Unmarshal(callRet[Main].res).locations)]
       ELSE frSpans
  /\ frOutcome' = [frOutcome EXCEPT ![frI] = QueryOutcome]
  /\ frI' = frI + 1
  /\ frPc' = "loop"
  /\ UNCHANGED <<frPath, frInput, frErr, closeCount>>
  /\ UNCHANGED <<sideVars, buildVars, procVars, clientVars, callVars>>

\* line 315: the loop is over, return spans, nil (the deferred Close runs)
FRLoopDone ==
  /\ frPc = "loop"
  /\ frI > Len(frSpans)
  /\ frPc' = "close"
  /\ UNCHANGED <<frPath, frInput, frSpans, frI, frErr, frOutcome, closeCount>>
  /\ UNCHANGED <<sideVars, buildVars, procVars, clientVars, callVars>>

\* Client.Close, line 173: c.stdin.Close()
ClientClose ==
  /\ frPc = "close"
  /\ stdinClosed' = TRUE
  /\ closeCount' = closeCount + 1
  /\ frPc' = "wait"
  /\ UNCHANGED <<frPath, frInput, frSpans, frI, frErr, frOutcome>>
  /\ UNCHANGED <<sideVars, buildVars, proc, stdin, stdout, frameLog,
                 clientVars, callVars>>

\* Client.Close, line 174: c.cmd.Wait() returns once the process has exited,
\* and FindReferences returns
ClientWait ==
  /\ frPc = "wait"
  /\ proc = "exited"
  /\ frPc' = "returned"
  /\ UNCHANGED <<frPath, frInput, frSpans, frI, frErr, frOutcome, closeCount>>
  /\ UNCHANGED <<sideVars, buildVars, procVars, clientVars, callVars>>

\* results an analyzer response can carry: none (an error response), a JSON
\* object, or a Location list
AnalyzerResults == {Nil, ResObj, ResLocs(<<LocX, LocY>>)}

\* the steps FindReferences, its Client and the analyzer take
FindReferencesStep ==
  \/ FRUnsupported
  \/ FRSpawnFails
  \/ FRSpawn
  \/ FRInitialize
  \/ FRInitializeFailed
  \/ FRInitialized
  \/ FRDidOpen
  \/ FRSkipSpan
  \/ FRQuery
  \/ FRQueryReturned
  \/ FRLoopDone
  \/ ClientClose
  \/ ClientWait
  \/ CallSend(Main)
  \/ CallReceive(Main)
  \/ CallTimeout(Main)
  \/ ReadLoopFrame
  \/ ReadLoopDeliver
  \/ ReadLoopEOF
  \/ AnalyzerRespond(AnalyzerResults)
  \/ AnalyzerExit

\* ------------------------------------------------------------------------
\* FindReferences called once, on any span list and path
\* ------------------------------------------------------------------------
\* longest span list FindReferences is called with
MaxSpans == 2

SpanF ==
  [Name |-> "F", Kind |-> "function_declaration", Start |-> 2, End |-> 4,
   RefLine |-> 1, RefCol |-> 5, References |-> <<>>]

SpanT ==
  [Name |-> "T", Kind |-> "type_spec", Start |-> 6, End |-> 6,
   RefLine |-> 5, RefCol |-> 5, References |-> <<>>]

\* a declaration without a name child: the anchor stays (0, 0)
SpanAnon ==
  [Name |-> "class_declaration", Kind |-> "class_declaration", Start |-> 8,
   End |-> 9, RefLine |-> 0, RefCol |-> 0, References |-> <<>>]

SpanInputs ==
  UNION {[1..n -> {SpanF, SpanT, SpanAnon}] : n \in 0..MaxSpans}

InitFR ==
  /\ ctxCancelled = FALSE
  /\ UIIdle
  /\ AnalyzeIdle
  /\ PatchIdle
  /\ ClientIdle
  /\ CallsIdle
  /\ BuildIdle
  /\ \E spans \in SpanInputs, filePath \in {GoPath, MdPath} :
       /\ frPc = "select"
       /\ frPath = filePath
       /\ frInput = spans
       /\ frSpans = spans
       /\ frI = 0
       /\ frErr = "none"
       /\ frOutcome = [i \in 1..Len(spans) |-> "none"]
       /\ closeCount = 0

NextFR == FindReferencesStep

SpecFR == InitFR /\ [][NextFR]_vars

\* the steps of a FindReferences call that the program takes itself: the
\* goroutine of the call, its Call and the reader; the timer of a Call is
\* among them, the analyzer's steps are not
FRProgramStep ==
  \/ FRUnsupported
  \/ FRSpawnFails
  \/ FRSpawn
  \/ FRInitialize
  \/ FRInitializeFailed
  \/ FRInitialized
  \/ FRDidOpen
  \/ FRSkipSpan
  \/ FRQuery
  \/ FRQueryReturned
  \/ FRLoopDone
  \/ ClientClose
  \/ ClientWait
  \/ CallSend(Main)
  \/ CallReceive(Main)
  \/ CallTimeout(Main)
  \/ ReadLoopFrame
  \/ ReadLoopDeliver
  \/ ReadLoopEOF

\* the Go scheduler runs every goroutine that can run and timers fire; the
\* analyzer is another program and owes nothing
SpecFRLive == InitFR /\ [][NextFR]_vars /\ WF_vars(FRProgramStep)

\* ------------------------------------------------------------------------
\* collect.AnalyzeFile
\* ------------------------------------------------------------------------
\* a uint32 as two 16-bit halves
Uint32(n) ==
  [hi |-> ((n - (n % 65536)) \div 65536) % 65536, lo |-> n % 65536]

\* position (rowA, colA) is at or before position (rowB, colB)
PointLE(rowA, colA, rowB, colB) ==
  \/ rowA.hi < rowB.hi
  \/ rowA.hi = rowB.hi /\ rowA.lo < rowB.lo
  \/ rowA = rowB /\ colA <= colB

\* a syntax-tree node; parent 0 is "no parent", and hasName tells whether
\* the node has a child in its "name" field
TreeNode(type, parent, sr, sc, er, ec, sb, eb) ==
  [type |-> type, parent |-> parent, startRow |-> sr, startCol |-> sc,
   endRow |-> er, endCol |-> ec, startByte |-> sb, endByte |-> eb,
   hasName |-> FALSE, name |-> "", nameRow |-> 0, nameCol |-> 0]

Named(node, name, row, col) ==
  [node EXCEPT !.hasName = TRUE, !.name = name, !.nameRow = row,
               !.nameCol = col]

\* package p / func F() { / <tab>return / } / func G() {}
GoTree ==
  <<TreeNode("source_file", 0, 0, 0, 5, 0, 0, 43),
    TreeNode("package_clause", 1, 0, 0, 0, 9, 0, 9),
    Named(TreeNode("function_declaration", 1, 1, 0, 3, 1, 10, 30), "F", 1, 5),
    TreeNode("block", 3, 1, 9, 3, 1, 19, 30),
    TreeNode("return_statement", 4, 2, 1, 2, 7, 22, 28),
    Named(TreeNode("function_declaration", 1, 4, 0, 4, 11, 31, 42), "G", 4, 5),
    TreeNode("block", 6, 4, 9, 4, 11, 40, 42)>>

\* class { / <2 spaces>m() {} / }  -- the class name is missing, so the
\* class_declaration the parser recovers has no name child
TsTree ==
  <<TreeNode("program", 0, 0, 0, 3, 0, 0, 21),
    TreeNode("class_declaration", 1, 0, 0, 2, 1, 0, 20),
    TreeNode("class_body", 2, 0, 6, 2, 1, 6, 20),
    Named(TreeNode("method_definition", 3, 1, 2, 1, 8, 10, 16), "m", 1, 2)>>

\* the tree the parser builds for the content of a file
TreeOf(filename) ==
  IF HasSuffix(filename, <<".", "g", "o">>) THEN GoTree ELSE TsTree

\* isGenerated
isGenerated(filename) ==
  \/ HasSuffix(filename, <<".", "m", "i", "n", ".", "j", "s">>)
  \/ HasSuffix(filename, <<".", "p", "b", ".", "g", "o">>)
  \/ HasSuffix(filename, <<"_", "g", "e", "n", ".", "g", "o">>)
  \/ HasSuffix(filename, <<"g", "e", "n", "e", "r", "a", "t", "e", "d", ".", "g", "o">>)
  \/ HasSuffix(filename, <<"p", "a", "c", "k", "a", "g", "e", "-", "l", "o", "c",
                           "k", ".", "j", "s", "o", "n">>)
  \/ HasSuffix(filename, <<"y", "a", "r", "n", ".", "l", "o", "c", "k">>)
  \/ HasSuffix(filename, <<"p", "n", "p", "m", "-", "l", "o", "c", "k", ".",
                           "y", "a", "m", "l">>)
  \/ HasSuffix(filename, <<"g", "o", ".", "s", "u", "m">>)

\* getLanguage: "" is nil
getLanguage(filename) ==
  IF isGenerated(filename) THEN ""
  ELSE IF HasSuffix(filename, <<".", "g", "o">>) THEN "golang"
  ELSE IF HasSuffix(filename, <<".", "j", "s">>) THEN "javascript"
  ELSE IF HasSuffix(filename, <<".", "t", "s">>) THEN "typescript"
  ELSE IF HasSuffix(filename, <<".", "t", "s", "x">>) THEN "tsx"
  ELSE ""

\* node i of the tree covers column 0 of the row
Covers(tree, i, row) ==
  /\ PointLE(Uint32(tree[i].startRow), tree[i].startCol, row, 0)
  /\ PointLE(row, 0, Uint32(tree[i].endRow), tree[i].endCol)

\* root.NamedDescendantForPointRange(p, p): from node i down to the smallest
\* node that covers the point; the root when nothing covers it
RECURSIVE NamedDescendantForPointRange(_, _, _)
NamedDescendantForPointRange(tree, i, row) ==
  LET inner == {j \in 1..Len(tree) : tree[j].parent = i /\ Covers(tree, j, row)}
  IN  IF inner = {} THEN i
      ELSE NamedDescendantForPointRange(
             tree, CHOOSE j \in inner : \A k \in inner : j <= k, row)

SymbolTypes ==
  {"function_declaration", "method_declaration", "type_spec",
   "class_declaration", "interface_declaration", "method_definition",
   "variable_declarator"}

\* findEnclosingSymbol: 0 is nil
RECURSIVE findEnclosingSymbol(_, _)
findEnclosingSymbol(tree, i) ==
  IF i = 0 THEN 0
  ELSE IF tree[i].type \in SymbolTypes THEN i
  ELSE findEnclosingSymbol(tree, tree[i].parent)

\* AnalyzeLine without the seen map: every changed line that has an
\* enclosing symbol appends a span
AnalyzeLine_NoDedup(tree, st, line) ==
  LET node == NamedDescendantForPointRange(tree, 1, Uint32(line - 1))
      sym == findEnclosingSymbol(tree, node)
      key == IF sym = 0 THEN <<>>
             ELSE <<tree[sym].type, tree[sym].startByte, tree[sym].endByte>>
  IN  IF sym = 0 THEN st
      ELSE [seen |-> st.seen \cup {key},
            keys |-> Append(st.keys, key),
            spans |-> Append(st.spans,
              [Name |-> IF tree[sym].hasName THEN tree[sym].name
                        ELSE tree[sym].type,
               Kind |-> tree[sym].type,
               Start |-> tree[sym].startRow + 1,
               End |-> tree[sym].endRow + 1,
               RefLine |-> IF tree[sym].hasName THEN tree[sym].nameRow ELSE 0,
               RefCol |-> IF tree[sym].hasName THEN tree[sym].nameCol ELSE 0,
               References |-> <<>>])]

\* one iteration of the loop over changedLines; st.seen is the set of keys,
\* st.spans the result, and st.keys records the key of each span's node
AnalyzeLine(tree, st, line) ==
  LET node == NamedDescendantForPointRange(tree, 1, Uint32(line - 1))
      sym == findEnclosingSymbol(tree, node)
      key == IF sym = 0 THEN <<>>
             ELSE <<tree[sym].type, tree[sym].startByte, tree[sym].endByte>>
  IN  IF sym = 0 \/ key \in st.seen THEN st
      ELSE [seen |-> st.seen \cup {key},
            keys |-> Append(st.keys, key),
            spans |-> Append(st.spans,
              [Name |-> IF tree[sym].hasName THEN tree[sym].name
                        ELSE tree[sym].type,
               Kind |-> tree[sym].type,
               Start |-> tree[sym].startRow + 1,
               End |-> tree[sym].endRow + 1,
               RefLine |-> IF tree[sym].hasName THEN tree[sym].nameRow ELSE 0,
               RefCol |-> IF tree[sym].hasName THEN tree[sym].nameCol ELSE 0,
               References |-> <<>>])]

RECURSIVE AnalyzeLoop(_, _, _, _)
AnalyzeLoop(tree, lines, k, st) ==
  IF k > Len(lines) THEN st
  ELSE AnalyzeLoop(tree, lines, k + 1, AnalyzeLine(tree, st, lines[k]))

\* AnalyzeFile with the keys of the nodes of the spans it returns (nil is the
\* empty list)
AnalyzeFileRun(filePath, lines) ==
  IF getLanguage(filePath) = "" THEN [seen |-> {}, keys |-> <<>>, spans |-> <<>>]
  ELSE AnalyzeLoop(TreeOf(filePath), lines, 1,
                   [seen |-> {}, keys |-> <<>>, spans |-> <<>>])

\* AnalyzeFile: the spans it returns
AnalyzeFile(filePath, lines) == AnalyzeFileRun(filePath, lines).spans

\* ------------------------------------------------------------------------
\* AnalyzeFile called on any list of changed lines
\* ------------------------------------------------------------------------
\* changed lines in one call, at most
MaxChanged == 3

\* line numbers ParsePatch can hand over for a six-line file, 0 included
LineNumbers == 0..7

PbGoPath == <<"a", ".", "p", "b", ".", "g", "o">>

AnalyzePaths == {GoPath, TsPath, MdPath, PbGoPath}

InitAnalyze ==
  /\ ctxCancelled = FALSE
  /\ UIIdle
  /\ anPath \in AnalyzePaths
  /\ anLines \in UNION {[1..n -> LineNumbers] : n \in 0..MaxChanged}
  /\ anSpans = <<>>
  /\ anKeys = <<>>
  /\ anPc = "input"
  /\ PatchIdle
  /\ ClientIdle
  /\ CallsIdle
  /\ FindReferencesIdle
  /\ BuildIdle

\* spans, _ = lsp.AnalyzeFile(ctx, f.Filename, content, changedLines)
CallAnalyzeFile ==
  /\ anPc = "input"
  /\ LET run == AnalyzeFileRun(anPath, anLines)
     IN  /\ anSpans' = run.spans
         /\ anKeys' = run.keys
  /\ anPc' = "analyzed"
  /\ UNCHANGED <<anPath, anLines, patchVars, ctxCancelled, uiVars, procVars,
                 clientVars, callVars, frVars, buildVars>>

NextAnalyze == CallAnalyzeFile

SpecAnalyze == InitAnalyze /\ [][NextAnalyze]_vars

\* ------------------------------------------------------------------------
\* collect.BuildPRSession
\* ------------------------------------------------------------------------
\* files of the pull request, at most
MaxFiles == 2

\* a patch that adds new-file line 3
PatchAddsLine3 ==
  PatchText(<<[k |-> "hunk", start |-> 2, text |-> <<>>],
              [k |-> "line", start |-> 0, text |-> ContextLine],
              [k |-> "line", start |-> 0, text |-> AddedLine]>>)

PRFilePool ==
  {[Filename |-> GoPath, Patch |-> PatchAddsLine3],
   [Filename |-> MdPath, Patch |-> PatchAddsLine3],
   [Filename |-> TsPath, Patch |-> PatchAddsLine3],
   [Filename |-> PbGoPath, Patch |-> PatchAddsLine3]}

InitBuild ==
  /\ ctxCancelled = FALSE
  /\ UIIdle
  /\ AnalyzeIdle
  /\ PatchIdle
  /\ ClientIdle
  /\ CallsIdle
  /\ FindReferencesIdle
  /\ prFiles \in UNION {[1..n -> PRFilePool] : n \in 1..MaxFiles}
  /\ bpPc = "fetch"
  /\ bpI = 0
  /\ bpSpans = <<>>
  /\ files = <<>>

FileDiff(f, spans) ==
  [Path |-> f.Filename, Patch |-> f.Patch, ChangedSpans |-> spans]

\* pr.go lines 78-104: repository info and the three fetches; any of them
\* failing ends the build with an error
BuildFetch ==
  /\ bpPc = "fetch"
  /\ \E ok \in BOOLEAN :
       /\ bpPc' = IF ok THEN "loop" ELSE "failed"
       /\ bpI' = IF ok THEN 1 ELSE 0
  /\ UNCHANGED <<prFiles, bpSpans, files>>
  /\ UNCHANGED <<sideVars, frVars, procVars, clientVars, callVars>>

\* pr.go lines 109-128 for a file that is not analyzed: ParsePatch yields no
\* line or os.ReadFile fails; the file is recorded with no spans
BuildFilePlain ==
  /\ bpPc = "loop"
  /\ bpI <= Len(prFiles)
  /\ \E readOk \in BOOLEAN :
       ~(Len(ParsePatch(prFiles[bpI].Patch)) > 0 /\ readOk)
  /\ files' = Append(files, FileDiff(prFiles[bpI], <<>>))
  /\ bpI' = bpI + 1
  /\ UNCHANGED <<prFiles, bpPc, bpSpans>>
  /\ UNCHANGED <<sideVars, frVars, procVars, clientVars, callVars>>

\* pr.go lines 110-116: ParsePatch yields lines and the file is read;
\* AnalyzeFile runs and FindReferences is entered with its spans
BuildFileAnalyze ==
  /\ bpPc = "loop"
  /\ bpI <= Len(prFiles)
  /\ Len(ParsePatch(prFiles[bpI].Patch)) > 0
  /\ LET spans == AnalyzeFile(prFiles[bpI].Filename,
                              ParsePatch(prFiles[bpI].Patch))
     IN  /\ bpSpans' = spans
         /\ EnterFindReferences(spans, prFiles[bpI].Filename)
  /\ bpPc' = "references"
  /\ NoClient
  /\ UNCHANGED <<prFiles, bpI, files>>
  /\ UNCHANGED sideVars

\* BuildFileDone going on to the next file without recording this one when
\* FindReferences returned an error
BuildFileDone_SkipOnError ==
  /\ bpPc = "references"
  /\ frPc = "returned"
  /\ files' = IF frErr = "none"
              THEN Append(files, FileDiff(prFiles[bpI], frSpans)) ELSE files
  /\ bpI' = bpI + 1
  /\ bpPc' = "loop"
  /\ UNCHANGED <<prFiles, bpSpans>>
  /\ UNCHANGED <<sideVars, frVars, procVars, clientVars, callVars>>

\* pr.go lines 116-128: FindReferences returned; its error is dropped and the
\* file is recorded with the spans it returned
BuildFileDone ==
  /\ bpPc = "references"
  /\ frPc = "returned"
  /\ files' = Append(files, FileDiff(prFiles[bpI], frSpans))
  /\ bpI' = bpI + 1
  /\ bpPc' = "loop"
  /\ UNCHANGED <<prFiles, bpSpans>>
  /\ UNCHANGED <<sideVars, frVars, procVars, clientVars, callVars>>

\* pr.go lines 130-182: the loop is over and the session is returned
BuildReturn ==
  /\ bpPc = "loop"
  /\ bpI > Len(prFiles)
  /\ bpPc' = "done"
  /\ UNCHANGED <<prFiles, bpI, bpSpans, files>>
  /\ UNCHANGED <<sideVars, frVars, procVars, clientVars, callVars>>

NextBuild ==
  \/ BuildFetch
  \/ BuildFilePlain
  \/ BuildFileAnalyze
  \/ BuildFileDone
  \/ BuildReturn
  \/ FindReferencesStep

SpecBuild == InitBuild /\ [][NextBuild]_vars

\* ------------------------------------------------------------------------
\* The web page (App.tsx, FileNode.tsx) and the server behind it (server.go)
\* ------------------------------------------------------------------------
\* files of a session, at most
MaxUIFiles == 2

\* /analyze requests issued by the page, at most
MaxRequests == 1

\* clicks on Refresh, at most
MaxRefresh == 1

\* a patch that removes a line and adds none
PatchRemovesLine ==
  PatchText(<<[k |-> "hunk", start |-> 2, text |-> <<>>],
              [k |-> "line", start |-> 0, text |-> RemovedLine]>>)

SessionFilePool ==
  {[Filename |-> GoPath, Patch |-> PatchAddsLine3],
   [Filename |-> TsPath, Patch |-> PatchRemovesLine],
   [Filename |-> MdPath, Patch |-> PatchAddsLine3]}

\* what FindReferences leaves in the References of the spans of a file
ReferenceChoices == {<<>>, <<ReferenceOf(LocX)>>}

WithReferences(spans, refs) ==
  [k \in 1..Len(spans) |-> [spans[k] EXCEPT !.References = refs]]

\* one file through ParsePatch, os.ReadFile, AnalyzeFile and FindReferences:
\* whether it got past the two "continue"s, and its spans
AnalyzeTarget(path, patchText, readable, refs) ==
  LET lines == ParsePatch(patchText)
  IN  IF Len(lines) = 0 \/ ~readable
      THEN [reached |-> FALSE, spans |-> <<>>]
      ELSE [reached |-> TRUE,
            spans |-> WithReferences(AnalyzeFile(path, lines), refs)]

\* the FileDiffs the generator (BuildPRSession) produces for the pool when
\* every file can be read
GeneratedFiles ==
  {FileDiff(f, AnalyzeTarget(f.Filename, f.Patch, TRUE, refs).spans) :
     f \in SessionFilePool, refs \in ReferenceChoices}

Sessions ==
  {s \in UNION {[1..n -> GeneratedFiles] : n \in 1..MaxUIFiles} :
     \A i, j \in DOMAIN s : i # j => s[i].Path # s[j].Path}

\* JSON.stringify({ filename: undefined }) is "{}": req.Filename stays ""
NoFilename == <<>>

\* the null a nil slice is encoded as
JsonNull == [null |-> TRUE, files |-> <<>>]

\* json.NewEncoder(w).Encode(results) as response.json() reads it back:
\* results is nil unless a file was appended, and a nil slice encodes as null
EncodeFiles(results) ==
  IF results = <<>> THEN JsonNull ELSE [null |-> FALSE, files |-> results]

\* server.go lines 173-184
TargetFiles(filename) ==
  IF filename = NoFilename THEN session
  ELSE LET m == {i \in DOMAIN session : session[i].Path = filename}
       IN  IF m = {} THEN <<>>
           ELSE <<session[CHOOSE i \in m : \A j \in m : i <= j]>>

\* server.go lines 186-216
RECURSIVE AnalyzeTargets(_, _, _, _)
AnalyzeTargets(targetFiles, readable, refs, k) ==
  IF k > Len(targetFiles) THEN <<>>
  ELSE LET f == targetFiles[k]
           a == AnalyzeTarget(f.Path, f.Patch, readable[k], refs[k])
       IN  (IF a.reached THEN <<[f EXCEPT !.ChangedSpans = a.spans]>>
            ELSE <<>>)
           \o AnalyzeTargets(targetFiles, readable, refs, k + 1)

\* Array.prototype.findIndex on the filename; 0 stands for -1
FindIndex(fs, name) ==
  LET m == {i \in DOMAIN fs : fs[i].filename = name}
  IN  IF m = {} THEN 0 ELSE CHOOSE i \in m : \A j \in m : i <= j

\* App.tsx lines 358-366
MarkChecked(fs, filename) ==
  LET idx == FindIndex(fs, filename)
  IN  IF filename # NoFilename /\ idx # 0
      THEN [fs EXCEPT ![idx].referencesChecked = TRUE]
      ELSE fs

\* App.tsx lines 368-380, for one update
ApplyUpdate(fs, update) ==
  LET idx == FindIndex(fs, update.Path)
  IN  IF idx # 0
      THEN [fs EXCEPT ![idx] = [filename |-> @.filename,
                                patch |-> update.Patch,
                                changedSpans |-> update.ChangedSpans,
                                referencesChecked |-> TRUE]]
      ELSE fs

RECURSIVE ApplyUpdates(_, _, _)
ApplyUpdates(fs, updatedFiles, k) ==
  IF k > Len(updatedFiles) THEN fs
  ELSE ApplyUpdates(ApplyUpdate(fs, updatedFiles[k]), updatedFiles, k + 1)

\* the updater analyzeFile passes to setFiles
MergeAnalyzed(prevFiles, filename, updatedFiles) ==
  ApplyUpdates(MarkChecked(prevFiles, filename), updatedFiles, 1)

\* App.tsx lines 419-432
FileDataOf(f) ==
  [filename |-> f.Path, patch |-> f.Patch, changedSpans |-> f.ChangedSpans,
   referencesChecked |-> FALSE]

\* the cards are keyed by index: a card that stays mounted keeps its
\* expanded state, a new card starts expanded
Remount(fs) ==
  [i \in 1..Len(fs) |-> IF i \in DOMAIN expanded THEN expanded[i] ELSE TRUE]

\* FileNode.tsx lines 31-37
hasAnyReferences(data) ==
  \E k \in DOMAIN data.changedSpans :
    Len(data.changedSpans[k].References) > 0

\* FileNode.tsx lines 284-299: the Find References button is rendered
ShowsPrompt(i) == expanded[i] /\ ~uiFiles[i].referencesChecked

\* FileNode.tsx lines 301-308: "No references found for this file."
ShowsNoReferences(i) ==
  /\ expanded[i]
  /\ uiFiles[i].referencesChecked
  /\ ~hasAnyReferences(uiFiles[i])

NewAnalyzeRequest(filename) ==
  [filename |-> filename, pc |-> "sent", ok |-> FALSE, body |-> JsonNull]

\* server.Start has generated the session; the page has just been mounted
InitUI ==
  /\ ctxCancelled = FALSE
  /\ session \in Sessions
  /\ uiFiles = <<>>
  /\ expanded = <<>>
  /\ fetchReq = NoFetch
  /\ fetches = 0
  /\ anReqs = <<>>
  /\ handlers = <<>>
  /\ sessionMu = Unlocked
  /\ AnalyzeIdle
  /\ PatchIdle
  /\ ClientIdle
  /\ CallsIdle
  /\ FindReferencesIdle
  /\ BuildIdle

\* fetchSession up to its await: the call of the mount effect, then the
\* calls of the Refresh button, which is disabled while one is loading
FetchSessionStart ==
  /\ fetchReq.pc = "idle"
  /\ fetches <= MaxRefresh
  /\ LET refresh == fetches > 0
     IN  /\ uiFiles' = IF refresh THEN uiFiles ELSE <<>>
         /\ expanded' = IF refresh THEN expanded ELSE <<>>
         /\ fetchReq' = [NoFetch EXCEPT !.pc = "sent", !.refresh = refresh]
  /\ fetches' = fetches + 1
  /\ UNCHANGED <<session, anReqs, backendVars>>

\* the /session handler
ServerSession ==
  /\ fetchReq.pc = "sent"
  /\ ~fetchReq.refresh
  /\ fetchReq' = [fetchReq EXCEPT !.pc = "answered", !.ok = TRUE,
                                  !.body = session]
  /\ UNCHANGED <<session, uiFiles, expanded, fetches, anReqs, backendVars>>

\* the /refresh handler: the generator fails, or the session is replaced
ServerRefresh ==
  /\ fetchReq.pc = "sent"
  /\ fetchReq.refresh
  /\ \/ /\ fetchReq' = [fetchReq EXCEPT !.pc = "answered"]
        /\ UNCHANGED session
     \/ \E newSession \in Sessions :
          /\ session' = newSession
          /\ fetchReq' = [fetchReq EXCEPT !.pc = "answered", !.ok = TRUE,
                                          !.body = newSession]
  /\ UNCHANGED <<uiFiles, expanded, fetches, anReqs, backendVars>>

\* fetchSession after its await
FetchSessionDone ==
  /\ fetchReq.pc = "answered"
  /\ uiFiles' = IF fetchReq.ok
                THEN [i \in DOMAIN fetchReq.body |-> FileDataOf(fetchReq.body[i])]
                ELSE uiFiles
  /\ expanded' = Remount(uiFiles')
  /\ fetchReq' = NoFetch
  /\ UNCHANGED <<session, fetches, anReqs, backendVars>>

\* a click on the header of a main file card
ToggleExpanded ==
  \E i \in DOMAIN expanded :
    /\ expanded' = [expanded EXCEPT ![i] = ~@]
    /\ UNCHANGED <<session, uiFiles, fetchReq, fetches, anReqs, backendVars>>

\* a click on the Find References button of a card: analyzeFile(filename)
\* up to its await
ClickFindReferences ==
  \E i \in DOMAIN uiFiles :
    /\ ShowsPrompt(i)
    /\ Len(anReqs) < MaxRequests
    /\ anReqs' = Append(anReqs, NewAnalyzeRequest(uiFiles[i].filename))
    /\ UNCHANGED <<session, uiFiles, expanded, fetchReq, fetches, backendVars>>

\* a click on Analyze All: analyzeFile() up to its await
ClickAnalyzeAll ==
  /\ Len(anReqs) < MaxRequests
  /\ anReqs' = Append(anReqs, NewAnalyzeRequest(NoFilename))
  /\ UNCHANGED <<session, uiFiles, expanded, fetchReq, fetches, backendVars>>

\* the /analyze handler
ServerAnalyze ==
  \E r \in DOMAIN anReqs :
    /\ anReqs[r].pc = "sent"
    /\ LET targetFiles == TargetFiles(anReqs[r].filename)
       IN  \E readable \in [DOMAIN targetFiles -> BOOLEAN],
              refs \in [DOMAIN targetFiles -> ReferenceChoices] :
             anReqs' = [anReqs EXCEPT ![r] =
                          [@ EXCEPT !.pc = "answered", !.ok = TRUE,
                                    !.body = EncodeFiles(AnalyzeTargets(
                                               targetFiles, readable, refs, 1))]]
    /\ UNCHANGED <<session, uiFiles, expanded, fetchReq, fetches, backendVars>>

\* the request gets no 2xx answer: fetch rejects or response.ok is false
AnalyzeFails ==
  \E r \in DOMAIN anReqs :
    /\ anReqs[r].pc = "sent"
    /\ anReqs' = [anReqs EXCEPT ![r] = [@ EXCEPT !.pc = "answered"]]
    /\ UNCHANGED <<session, uiFiles, expanded, fetchReq, fetches, backendVars>>

\* analyzeFile after its awaits: nothing without an ok response; rawFiles.map
\* throws on null and the catch only logs; otherwise setFiles merges
AnalyzeFileDone ==
  \E r \in DOMAIN anReqs :
    /\ anReqs[r].pc = "answered"
    /\ uiFiles' = IF anReqs[r].ok /\ ~anReqs[r].body.null
                  THEN MergeAnalyzed(uiFiles, anReqs[r].filename,
                                     anReqs[r].body.files)
                  ELSE uiFiles
    /\ anReqs' = [anReqs EXCEPT ![r] = [@ EXCEPT !.pc = "done",
                                                 !.body = JsonNull]]
    /\ UNCHANGED <<session, expanded, fetchReq, fetches, backendVars>>

NextUI ==
  \/ FetchSessionStart
  \/ ServerSession
  \/ ServerRefresh
  \/ FetchSessionDone
  \/ ToggleExpanded
  \/ ClickFindReferences
  \/ ClickAnalyzeAll
  \/ ServerAnalyze
  \/ AnalyzeFails
  \/ AnalyzeFileDone

SpecUI == InitUI /\ [][NextUI]_vars

\* ------------------------------------------------------------------------
\* The handlers of server.Start as goroutines: net/http runs each request
\* in its own goroutine, so the statements of one handler interleave with
\* those of the others.  One action per statement that touches sessionMu
\* or session.
\* ------------------------------------------------------------------------
\* requests the server is sent, at most
MaxHandlers == 2

\* req.Filename of the /analyze requests sent
AnalyzeNames == {NoFilename, GoPath}

\* everything but the session, the handlers and the lock
serverRest == <<uiFiles, expanded, fetchReq, fetches, anReqs, patchVars,
                analyzeVars, ctxCancelled, procVars, clientVars, callVars,
                frVars, buildVars>>

\* json.NewEncoder(w).Encode(session) as the page reads it back
EncodeSession(s) == [null |-> FALSE, files |-> s]

\* what a copy of session.Files can see while another goroutine is storing
\* into it: a slice header is several words, so the copy is the old slice,
\* the new one, or the array of one cut to the length of the other
TornReads(old, new) ==
  {old, new}
    \cup (IF Len(new) <= Len(old) THEN {SubSeq(old, 1, Len(new))} ELSE {})
    \cup (IF Len(old) <= Len(new) THEN {SubSeq(new, 1, Len(old))} ELSE {})

\* handlers that hold the write lock and are at `session = newSession`
Storing == {g \in DOMAIN handlers : handlers[g].pc = "store"}

\* the mux dispatches a request to its handler: /session serves any method,
\* /refresh and /analyze answer 405 to anything but POST; a /analyze body
\* that does not decode is answered 400
ServeHTTP ==
  /\ Len(handlers) < MaxHandlers
  /\ \E kind \in {"session", "refresh", "analyze"}, accepted \in BOOLEAN,
        filename \in AnalyzeNames :
       /\ kind = "session" => accepted
       /\ kind # "analyze" => filename = NoFilename
       /\ handlers' = Append(handlers,
            [kind |-> kind,
             pc |-> IF ~accepted THEN "done"
                    ELSE IF kind = "refresh" THEN "generate" ELSE "rlock",
             filename |-> filename,
             newSession |-> <<>>,
             currentSession |-> <<>>,
             body |-> JsonNull])
  /\ UNCHANGED <<session, sessionMu, serverRest>>

\* /session line 129: sessionMu.RLock()
SessionRLock(h) ==
  /\ handlers[h].kind = "session"
  /\ handlers[h].pc = "rlock"
  /\ sessionMu.writer = 0
  /\ sessionMu' = [sessionMu EXCEPT !.readers = @ \cup {h}]
  /\ handlers' = [handlers EXCEPT ![h].pc = "encode"]
  /\ UNCHANGED <<session, serverRest>>

\* /session line 132: json.NewEncoder(w).Encode(session)
SessionEncode(h) ==
  /\ handlers[h].kind = "session"
  /\ handlers[h].pc = "encode"
  /\ handlers' = [handlers EXCEPT ![h].pc = "runlock",
                                  ![h].body = EncodeSession(session)]
  /\ UNCHANGED <<session, sessionMu, serverRest>>

\* /session line 130: the deferred sessionMu.RUnlock()
SessionRUnlock(h) ==
  /\ handlers[h].kind = "session"
  /\ handlers[h].pc = "runlock"
  /\ sessionMu' = [sessionMu EXCEPT !.readers = @ \ {h}]
  /\ handlers' = [handlers EXCEPT ![h].pc = "done"]
  /\ UNCHANGED <<session, serverRest>>

\* /refresh lines 141-145: newSession, err := generator(r.Context()), and
\* the 500 when it fails
RefreshGenerate(h) ==
  /\ handlers[h].kind = "refresh"
  /\ handlers[h].pc = "generate"
  /\ \/ handlers' = [handlers EXCEPT ![h].pc = "done"]
     \/ \E newSession \in Sessions :
          handlers' = [handlers EXCEPT ![h].pc = "lock",
                                       ![h].newSession = newSession]
  /\ UNCHANGED <<session, sessionMu, serverRest>>

\* /refresh line 147: sessionMu.Lock()
RefreshLock(h) ==
  /\ handlers[h].kind = "refresh"
  /\ handlers[h].pc = "lock"
  /\ sessionMu = Unlocked
  /\ sessionMu' = [sessionMu EXCEPT !.writer = h]
  /\ handlers' = [handlers EXCEPT ![h].pc = "store"]
  /\ UNCHANGED <<session, serverRest>>

\* /refresh line 148: session = newSession
RefreshStore(h) ==
  /\ handlers[h].kind = "refresh"
  /\ handlers[h].pc = "store"
  /\ session' = handlers[h].newSession
  /\ handlers' = [handlers EXCEPT ![h].pc = "unlock"]
  /\ UNCHANGED <<sessionMu, serverRest>>

\* /refresh line 149: sessionMu.Unlock()
RefreshUnlock(h) ==
  /\ handlers[h].kind = "refresh"
  /\ handlers[h].pc = "unlock"
  /\ sessionMu' = [sessionMu EXCEPT !.writer = 0]
  /\ handlers' = [handlers EXCEPT ![h].pc = "encode"]
  /\ UNCHANGED <<session, serverRest>>

\* /refresh line 152: json.NewEncoder(w).Encode(session), after the unlock.
\* While another /refresh is storing, the read races with the store: it
\* sees one of the torn values, or reads past the end of an array and the
\* process faults
RefreshEncode(h) ==
  /\ handlers[h].kind = "refresh"
  /\ handlers[h].pc = "encode"
  /\ IF Storing \ {h} = {}
     THEN handlers' = [handlers EXCEPT ![h].pc = "done",
                                       ![h].body = EncodeSession(session)]
     ELSE \E g \in Storing \ {h} :
            \/ \E s \in TornReads(session, handlers[g].newSession) :
                 handlers' = [handlers EXCEPT ![h].pc = "done",
                                              ![h].body = EncodeSession(s)]
            \/ /\ Len(session) # Len(handlers[g].newSession)
               /\ handlers' = [k \in DOMAIN handlers |->
                                 [handlers[k] EXCEPT !.pc = "crashed"]]
  /\ UNCHANGED <<session, sessionMu, serverRest>>

\* /analyze line 169: sessionMu.RLock()
AnalyzeRLock(h) ==
  /\ handlers[h].kind = "analyze"
  /\ handlers[h].pc = "rlock"
  /\ sessionMu.writer = 0
  /\ sessionMu' = [sessionMu EXCEPT !.readers = @ \cup {h}]
  /\ handlers' = [handlers EXCEPT ![h].pc = "copy"]
  /\ UNCHANGED <<session, serverRest>>

\* /analyze line 170: currentSession := session
AnalyzeCopy(h) ==
  /\ handlers[h].kind = "analyze"
  /\ handlers[h].pc = "copy"
  /\ handlers' = [handlers EXCEPT ![h].pc = "runlock",
                                  ![h].currentSession = session]
  /\ UNCHANGED <<session, sessionMu, serverRest>>

\* /analyze line 171: sessionMu.RUnlock()
AnalyzeRUnlock(h) ==
  /\ handlers[h].kind = "analyze"
  /\ handlers[h].pc = "runlock"
  /\ sessionMu' = [sessionMu EXCEPT !.readers = @ \ {h}]
  /\ handlers' = [handlers EXCEPT ![h].pc = "respond"]
  /\ UNCHANGED <<session, serverRest>>

\* /analyze lines 173-219: the rest of the handler works on currentSession
AnalyzeRespond(h) ==
  /\ handlers[h].kind = "analyze"
  /\ handlers[h].pc = "respond"
  /\ LET cur == handlers[h].currentSession
         m == {i \in DOMAIN cur : cur[i].Path = handlers[h].filename}
         targetFiles ==
           IF handlers[h].filename = NoFilename THEN cur
           ELSE IF m = {} THEN <<>>
           ELSE <<cur[CHOOSE i \in m : \A j \in m : i <= j]>>
     IN  \E readable \in [DOMAIN targetFiles -> BOOLEAN],
            refs \in [DOMAIN targetFiles -> ReferenceChoices] :
           handlers' = [handlers EXCEPT
             ![h].pc = "done",
             ![h].body = EncodeFiles(AnalyzeTargets(targetFiles, readable,
                                                    refs, 1))]
  /\ UNCHANGED <<session, sessionMu, serverRest>>

\* server.Start has generated the first session and listens
InitServer ==
  /\ ctxCancelled = FALSE
  /\ session \in Sessions
  /\ uiFiles = <<>>
  /\ expanded = <<>>
  /\ fetchReq = NoFetch
  /\ fetches = 0
  /\ anReqs = <<>>
  /\ handlers = <<>>
  /\ sessionMu = Unlocked
  /\ AnalyzeIdle
  /\ PatchIdle
  /\ ClientIdle
  /\ CallsIdle
  /\ FindReferencesIdle
  /\ BuildIdle

NextServer ==
  \/ ServeHTTP
  \/ \E h \in DOMAIN handlers : SessionRLock(h)
  \/ \E h \in DOMAIN handlers : SessionEncode(h)
  \/ \E h \in DOMAIN handlers : SessionRUnlock(h)
  \/ \E h \in DOMAIN handlers : RefreshGenerate(h)
  \/ \E h \in DOMAIN handlers : RefreshLock(h)
  \/ \E h \in DOMAIN handlers : RefreshStore(h)
  \/ \E h \in DOMAIN handlers : RefreshUnlock(h)
  \/ \E h \in DOMAIN handlers : RefreshEncode(h)
  \/ \E h \in DOMAIN handlers : AnalyzeRLock(h)
  \/ \E h \in DOMAIN handlers : AnalyzeCopy(h)
  \/ \E h \in DOMAIN handlers : AnalyzeRUnlock(h)
  \/ \E h \in DOMAIN handlers : AnalyzeRespond(h)

SpecServer == InitServer /\ [][NextServer]_vars

\* ------------------------------------------------------------------------
\* Properties of ParsePatch (SpecPatch)
\* ------------------------------------------------------------------------
HunkHeaders(items) == {h \in 1..Len(items) : items[h].k = "hunk"}

\* new-file lines (additions and context) in the segment of header h
NewLinesOf(items, h) ==
  CountIn(items, h + 1, SegmentEnd(items, h), {<<" ">>, <<"+">>})

\* a well-formed unified diff of one or more hunks: it starts with a hunk
\* header, has no malformed header, and a hunk whose new range starts at 0
\* has no new-file lines
ValidPatch(items) ==
  /\ Len(items) >= 1
  /\ items[1].k = "hunk"
  /\ \A j \in 1..Len(items) : items[j].text # MalformedHeader
  /\ \A h \in HunkHeaders(items) :
       items[h].start = 0 => NewLinesOf(items, h) = 0

MultiHunk(items) == Cardinality(HunkHeaders(items)) >= 2

\* positions in the result of the numbers emitted by the hunk of header h
EmittedBy(h) ==
  {k \in 1..Len(changedLines) :
     emittedAt[k] \in (h + 1)..SegmentEnd(patchSrc, h)}

FirstEmittedBy(h) ==
  changedLines[CHOOSE k \in EmittedBy(h) : \A m \in EmittedBy(h) : k <= m]

\* patch line that emitted the first number of the hunk of header h
FirstEmitterOf(h) ==
  emittedAt[CHOOSE k \in EmittedBy(h) : \A m \in EmittedBy(h) : k <= m]

Headerless(text) ==
  \A i \in 1..Len(Split(text)) : ~HasPrefix(Split(text)[i], <<"@", "@">>)

\* C11: for a patch text without any hunk header line, whatever its lines
\* start with, ParsePatch returns the empty list.
C11_HeaderlessYieldsEmpty ==
  (patchPc = "parsed" /\ Headerless(patch)) => changedLines = <<>>

\* ------------------------------------------------------------------------
\* Properties of Client (SpecClient)
\* ------------------------------------------------------------------------
\* the request of t's current Call reached the analyzer
Written(t) == \E k \in 1..Len(stdin) : stdin[k].id = callId[t]

Answered(i) == \E f \in framesSent : f.form = WellFormed /\ f.id = i

\* C1: when the analyzer never sends a response for a request, Call returns
\* the timeout error and, once it has returned, the pending table has no
\* entry for the request's id.
C1_TimeoutRemovesEntry ==
  \A t \in Callers :
    (callPc[t] = "returned" /\ Written(t) /\ ~Answered(callId[t])) =>
      /\ callRet[t].err = "timeout"
      /\ callId[t] \notin DOMAIN pending

\* C2: a Call that returns a result returns the result of a response frame
\* carrying the Call's own id, and a channel only ever holds results of
\* frames carrying the id of the Call that made it.
C2_NoCrossDelivery ==
  /\ \A t \in Callers :
       (callPc[t] = "returned" /\ callRet[t].err = "none") =>
         [form |-> WellFormed, id |-> callId[t], result |-> callRet[t].res]
           \in framesSent
  /\ \A i \in DOMAIN chans : \A k \in 1..Len(chans[i].buf) :
       [form |-> WellFormed, id |-> i, result |-> chans[i].buf[k]] \in framesSent

\* two Calls in flight together, the later one answered first
C2_Witness ==
  \E t, u \in Callers :
    /\ callPc[t] = "waiting"
    /\ callPc[u] = "returned"
    /\ callId[t] < callId[u]
    /\ callRet[u].err = "none"
    /\ Answered(callId[t])

\* C3: when readLoop reads a response whose id is not pending, the pending
\* table, every channel and every Call are left as they were and readLoop
\* goes on reading.
C3_UnknownIdDropped ==
  [][(/\ readerPc = "read"
      /\ ReadFrame(stdout).status = "message"
      /\ stdout' = ReadFrame(stdout).rest
      /\ ReadFrame(stdout).msg.hasId
      /\ ReadFrame(stdout).msg.id \notin DOMAIN pending)
     => (/\ pending' = pending
         /\ chans' = chans
         /\ callVars' = callVars
         /\ readerPc' = "read")]_vars

\* a frame for an id that was never allocated has been read and dropped
\* while a Call was waiting
C3_Witness ==
  /\ stdout = <<>>
  /\ readerPc = "read"
  /\ \E f \in framesSent : f.id > seq
  /\ \E t \in Callers : callPc[t] = "waiting" /\ callId[t] \in DOMAIN pending

\* ------------------------------------------------------------------------
\* Properties of FindReferences (SpecFR)
\* ------------------------------------------------------------------------
\* a Client session was opened by this call
SessionOpened == proc # "none"

IsPrefix(s, t) == Len(s) <= Len(t) /\ SubSeq(t, 1, Len(s)) = s

NonTrivial(span) == ~(span.RefLine = 0 /\ span.RefCol = 0)

FailedOutcomes == {"timeout", "write", "decode", "error response"}

\* the extension of a path: its text from the last '.' on
ExtOf(path) ==
  IF \E k \in 1..Len(path) : path[k] = "."
  THEN SubSeq(path,
              CHOOSE k \in 1..Len(path) :
                /\ path[k] = "."
                /\ \A m \in (k + 1)..Len(path) : path[m] # ".",
              Len(path))
  ELSE <<>>

SupportedExts ==
  {<<".", "g", "o">>, <<".", "t", "s">>, <<".", "t", "s", "x">>,
   <<".", "j", "s">>}

\* C4: when a session was opened, Close is invoked exactly once before
\* FindReferences returns, on every exit path, and nothing is sent on the
\* session after Close: no request id is allocated and nothing is written.
C4_CloseExactlyOnce ==
  /\ [](/\ closeCount <= 1
        /\ closeCount = 1 => SessionOpened
        /\ (frPc = "returned" /\ SessionOpened) => closeCount = 1)
  /\ [][closeCount >= 1 => (stdin' = stdin /\ seq' = seq)]_vars

\* FindReferences has returned after a failed initialize, the session closed
C4_Witness ==
  /\ frPc = "returned"
  /\ frErr = "initialize"
  /\ SessionOpened
  /\ closeCount = 1

\* C5: the span list FindReferences holds and returns has the length and
\* order of its input, every span keeps its name, kind, lines and anchor,
\* and a span's references are its input references with more appended.
C5_SpansPreserved ==
  /\ Len(frSpans) = Len(frInput)
  /\ \A i \in 1..Len(frInput) :
       /\ i <= Len(frSpans)
       /\ frSpans[i].Name = frInput[i].Name
       /\ frSpans[i].Kind = frInput[i].Kind
       /\ frSpans[i].Start = frInput[i].Start
       /\ frSpans[i].End = frInput[i].End
       /\ frSpans[i].RefLine = frInput[i].RefLine
       /\ frSpans[i].RefCol = frInput[i].RefCol
       /\ IsPrefix(frInput[i].References, frSpans[i].References)

\* FindReferences has returned two different spans, one with references
\* added and one whose query failed
C5_Witness ==
  /\ frPc = "returned"
  /\ Len(frInput) = 2
  /\ frInput[1] # frInput[2]
  /\ \E i, j \in 1..2 :
       /\ frSpans[i].References # <<>>
       /\ frOutcome[j] \in FailedOutcomes

\* C6: a span whose query failed (timeout, undecodable result, error
\* response) has gained no references; the step that handles the failure
\* changes no span and goes on with the loop; and when the loop is over
\* every span has been passed over or queried, one Call per queried span.
C6_FailureSkipsOnlyThatSpan ==
  /\ [](/\ \A i \in 1..Len(frOutcome) :
             frOutcome[i] \in FailedOutcomes =>
               frSpans[i].References = frInput[i].References
        /\ (frPc \in {"close", "wait", "returned"} /\ frErr = "none"
              /\ SessionOpened) =>
             /\ \A i \in 1..Len(frOutcome) : frOutcome[i] # "none"
             /\ seq = 1 + Cardinality({i \in 1..Len(frInput) :
                                         NonTrivial(frInput[i])}))
  /\ [][(frPc = "querying" /\ frPc' # "querying" /\ QueryOutcome # "ok") =>
          (frSpans' = frSpans /\ frPc' = "loop" /\ frI' = frI + 1)]_vars

\* the first query timed out, the second one was issued and added references
C6_Witness ==
  /\ frPc = "returned"
  /\ Len(frOutcome) = 2
  /\ frOutcome[1] = "timeout"
  /\ frOutcome[2] = "ok"
  /\ frSpans[1].References = <<>>
  /\ frSpans[2].References # <<>>

\* C8: for a path whose extension is not .go, .ts, .tsx or .js,
\* FindReferences returns its input span list and no error, and no process
\* is spawned, nothing is written and Close is not invoked.
C8_UnsupportedIsNoOp ==
  ExtOf(frPath) \notin SupportedExts =>
    /\ frPc \in {"select", "returned"}
    /\ frSpans = frInput
    /\ frErr = "none"
    /\ proc = "none"
    /\ stdin = <<>>
    /\ seq = 0
    /\ closeCount = 0

C8_Witness ==
  /\ frPc = "returned"
  /\ frPath = MdPath
  /\ Len(frInput) = 2
  /\ frSpans = frInput

\* ------------------------------------------------------------------------
\* Properties of BuildPRSession (SpecBuild)
\* ------------------------------------------------------------------------
\* FindReferences failed to start the analyzer or its initialize Call
\* returned an error
AnalyzerUnavailable == frErr \in {"start", "initialize"}

NoReferencesRequest ==
  /\ seq <= 1
  /\ \A k \in 1..Len(stdin) : stdin[k].method # "textDocument/references"

DeclarationsAt(tree, line) ==
  {d \in 1..Len(tree) :
     /\ tree[d].type \in SymbolTypes
     /\ tree[d].startRow + 1 <= line
     /\ line <= tree[d].endRow + 1}

\* C12: the spans AnalyzeFile returns have pairwise different (node type,
\* start byte, end byte) keys, whatever the changed lines and their order, so
\* the changed lines of one declaration give one span.
C12_NoDuplicateSpans ==
  anPc = "analyzed" =>
    /\ Len(anKeys) = Len(anSpans)
    /\ \A i, j \in 1..Len(anKeys) : i # j => anKeys[i] # anKeys[j]

\* three changed lines, two of them the same line, all inside func F of the
\* Go file: one span
C12_Witness ==
  /\ anPc = "analyzed"
  /\ anPath = GoPath
  /\ Len(anLines) = 3
  /\ \A k \in 1..3 : DeclarationsAt(GoTree, anLines[k]) = {3}
  /\ anLines[1] = anLines[3]
  /\ anLines[1] # anLines[2]
  /\ Len(anSpans) = 1
  /\ anSpans[1].Name = "F"

\* ------------------------------------------------------------------------
\* Properties of FindReferences, continued (SpecFR)
\* ------------------------------------------------------------------------
\* C13: when the references Call of a span returns a list of n Locations,
\* the step that takes the result appends exactly n References to that span,
\* in the order returned, each with the Location's start line plus one and
\* the start and end columns of its range.
C13_ReferencesAppended ==
  [][(/\ frPc = "querying"
      /\ frPc' = "loop"
      /\ callRet[Main].err = "none"
      /\ callRet[Main].res.kind = "locs")
     => LET locs == callRet[Main].res.locs
            old == frSpans[frI].References
            new == frSpans'[frI].References
        IN  /\ Len(frSpans') = Len(frSpans)
            /\ Len(new) = Len(old) + Len(locs)
            /\ SubSeq(new, 1, Len(old)) = old
            /\ \A k \in 1..Len(locs) :
                 /\ new[Len(old) + k].Line = locs[k].Line + 1
                 /\ new[Len(old) + k].Start = locs[k].Start
                 /\ new[Len(old) + k].End = locs[k].End]_vars

\* a query was answered with the two Locations (lines 0 and 7, in two files)
\* and the span holds two References, lines 1 and 8
C13_Witness ==
  /\ frPc = "returned"
  /\ \E i \in 1..Len(frSpans) :
       /\ frOutcome[i] = "ok"
       /\ Len(frSpans[i].References) = 2
       /\ frSpans[i].References[1].Line = 1
       /\ frSpans[i].References[2].Line = 8
       /\ frSpans[i].References[1].Path # frSpans[i].References[2].Path

\* C14: a Call that is waiting for its response under a cancelled context
\* returns because of the cancellation; it does not wait out the 10-second
\* timer, so it never ends with the timeout error.
C14_CancelAbortsCall ==
  [][\A t \in Threads :
       (ctxCancelled /\ callPc[t] = "waiting" /\ callPc'[t] = "returned")
         => callRet'[t].err # "timeout"]_vars

\* ------------------------------------------------------------------------
\* Properties of readLoop (SpecReader)
\* ------------------------------------------------------------------------
\* the frame f is in the unread output, whole
Unread(f) ==
  \E k \in 1..Len(stdout) :
    /\ k + Len(Wire(f)) - 1 <= Len(stdout)
    /\ SubSeq(stdout, k, k + Len(Wire(f)) - 1) = Wire(f)

\* C15: whatever malformed frames the analyzer writes, readLoop does not
\* crash the process, decodes and delivers nothing but the responses of
\* well-formed frames, and loses no well-formed response: each one is either
\* still unread or has been decoded and looked up.
C15_MalformedFrameDropped ==
  /\ readerPc # "panicked"
  /\ \A m \in framesRead :
       [form |-> WellFormed, id |-> m.id, result |-> m.result] \in framesSent
  /\ \A i \in DOMAIN chans : \A k \in 1..Len(chans[i].buf) :
       [form |-> WellFormed, id |-> i, result |-> chans[i].buf[k]] \in framesSent
  /\ \A f \in framesSent :
       f.form = WellFormed =>
         \/ [id |-> f.id, result |-> f.result] \in framesRead
         \/ Unread(f)

\* ------------------------------------------------------------------------
\* Properties of BuildPRSession, continued (SpecBuild)
\* ------------------------------------------------------------------------
\* the file is one the pipeline is to skip: a generated-file name, or an
\* extension without a grammar
Skipped(filename) ==
  \/ isGenerated(filename)
  \/ \A ext \in {<<".", "g", "o">>, <<".", "j", "s">>, <<".", "t", "s">>,
                 <<".", "t", "s", "x">>} : ~HasSuffix(filename, ext)

\* C16: while BuildPRSession is at a file that is to be skipped, AnalyzeFile
\* has given it no span and no error, and no analyzer process exists for it.
C16_SkippedFileDoesNoWork ==
  (bpPc = "references" /\ Skipped(prFiles[bpI].Filename)) =>
    /\ bpSpans = <<>>
    /\ frSpans = <<>>
    /\ proc = "none"


\* ------------------------------------------------------------------------
\* Properties of the web page (SpecUI)
\* ------------------------------------------------------------------------
\* the step is the continuation of a successful analyze request for a file
\* the page lists
AnalyzedNamed(r, i) ==
  /\ r \in DOMAIN anReqs
  /\ anReqs[r].pc = "answered"
  /\ anReqs'[r].pc = "done"
  /\ anReqs[r].ok
  /\ i \in DOMAIN uiFiles
  /\ uiFiles[i].filename = anReqs[r].filename

\* C17: on every main file card the Find References prompt and "No
\* references found" are never shown together, "No references found" is
\* shown only for a checked file whose spans carry no references, and the
\* continuation of a successful analyze request for a named file leaves
\* that file checked, whatever the response lists.
C17_CheckedAfterAnalyze ==
  /\ [](\A i \in DOMAIN uiFiles :
          /\ ~(ShowsPrompt(i) /\ ShowsNoReferences(i))
          /\ ShowsNoReferences(i) =>
               /\ uiFiles[i].referencesChecked
               /\ \A k \in DOMAIN uiFiles[i].changedSpans :
                    uiFiles[i].changedSpans[k].References = <<>>)
  /\ [][\A r \in 1..MaxRequests, i \in 1..MaxUIFiles :
          AnalyzedNamed(r, i) => uiFiles'[i].referencesChecked]_vars


\* ------------------------------------------------------------------------
\* Order of a FindReferences run (SpecFR)
\* ------------------------------------------------------------------------
\* positions in stdin of the textDocument/references requests
RefsRequests ==
  {k \in DOMAIN stdin : stdin[k].method = "textDocument/references"}

\* a Call of the goroutine running FindReferences has not returned yet
InCall == callPc[Main] \in {"registered", "waiting"}

\* NotStarted 0, Spawned 1, Initialized 2, Querying 3, Closed 4
Phase ==
  CASE frPc \in {"idle", "select"} -> 0
    [] frPc \in {"initialize", "initializing"} -> 1
    [] frPc = "open" -> 2
    [] frPc \in {"loop", "querying"} -> 3
    [] OTHER -> 4

\* the step writes a textDocument/references request
WritesRefsRequest ==
  /\ Len(stdin') = Len(stdin) + 1
  /\ stdin'[Len(stdin')].method = "textDocument/references"

\* C18: a FindReferences run never goes back in the order NotStarted,
\* Spawned, Initialized, Querying, Closed; when a references request is in
\* the analyzer's input the initialize request was written before it and
\* its Call has returned; a references request is written by the Call for
\* the span the loop is at, when every earlier span has been passed over or
\* its Call has returned and no later span has been touched; the request
\* ids increase along the input; and once Close has closed the input no
\* Call is in progress and nothing more is written.
C18_SessionOrder ==
  /\ [](/\ RefsRequests # {} =>
             /\ \E k \in DOMAIN stdin :
                  /\ stdin[k] = [id |-> 1, method |-> "initialize"]
                  /\ \A r \in RefsRequests : k < r
             /\ callId[Main] > 1
        /\ \A a, b \in RefsRequests : a < b => stdin[a].id < stdin[b].id
        /\ stdinClosed => (~InCall /\ Phase = 4))
  /\ [][/\ Phase' >= Phase
        /\ WritesRefsRequest =>
             /\ frPc = "querying"
             /\ stdin'[Len(stdin')].id = callId[Main]
             /\ \A r \in RefsRequests : stdin[r].id < callId[Main]
             /\ NonTrivial(frSpans[frI])
             /\ \A j \in 1..(frI - 1) : frOutcome[j] # "none"
             /\ \A j \in frI..Len(frSpans) : frOutcome[j] = "none"
        /\ stdinClosed => stdin' = stdin]_vars

\* FindReferences has returned after two references requests, one per span,
\* and Close
C18_Witness ==
  /\ frPc = "returned"
  /\ frErr = "none"
  /\ Cardinality(RefsRequests) = 2
  /\ stdinClosed
  /\ \A i \in 1..Len(frOutcome) : frOutcome[i] # "none"


\* the step writes the initialized notification
WritesInitialized ==
  /\ Len(stdin') = Len(stdin) + 1
  /\ stdin'[Len(stdin')].method = "initialized"

\* C19: the initialized notification is written only after the initialize
\* Call returned a result: not after an error response (a response without
\* a result) and not without an answer; and when it is not written no
\* didOpen or references request follows and FindReferences returns the
\* spans as they were passed.
C19_InitializedOnlyOnSuccess ==
  /\ [][WritesInitialized =>
          /\ callArg[Main].method = "initialize"
          /\ callRet[Main].err = "none"
          /\ callRet[Main].res # Nil]_vars
  /\ []((\A k \in DOMAIN stdin : stdin[k].method # "initialized") =>
          /\ \A k \in DOMAIN stdin : stdin[k].method \in {"initialize"}
          /\ frSpans = frInput)


\* ------------------------------------------------------------------------
\* Delivery by the reader (SpecClient)
\* ------------------------------------------------------------------------
\* the send ch <- msg.Result completes at once: the buffer has room or a
\* receiver is waiting, and the channel has not been closed
CanDeliver ==
  /\ ~chans[readerMsg.id].closed
  /\ \/ Len(chans[readerMsg.id].buf) < ChanCap
     \/ \E t \in Threads : callPc[t] = "waiting" /\ callId[t] = readerMsg.id

\* the Call the reader is delivering to has timed out and returned
DeliveringLate ==
  /\ readerPc = "deliver"
  /\ \E t \in Threads :
       /\ callId[t] = readerMsg.id
       /\ callPc[t] = "returned"
       /\ callRet[t].err = "timeout"

\* C20: whenever the reader is at its delivery step the send can complete,
\* also when the caller has timed out and stopped waiting, and the step
\* after it puts the reader back at reading the next frame.
C20_DeliveryNeverBlocks ==
  /\ [](readerPc = "deliver" => CanDeliver)
  /\ [][(readerPc = "deliver" /\ readerPc' # "deliver") =>
          (readerPc' = "read" /\ chans'[readerMsg.id].buf # <<>>)]_vars

\* the reader is delivering a response to a Call that has timed out, with a
\* later frame waiting to be read
C20_Witness ==
  /\ DeliveringLate
  /\ CanDeliver
  /\ stdout # <<>>

\* ------------------------------------------------------------------------
\* Request ids and the pending table (SpecClient)
\* ------------------------------------------------------------------------
\* the step is goroutine t entering Call and registering
Registers(t) == callPc[t] # "registered" /\ callPc'[t] = "registered"

\* C21: a Call takes the id one above the last id given out, the first one
\* being 1; the id it takes has never been given to another Call and is not
\* in the pending table; two goroutines never hold the same id.
C21_IdsUnique ==
  /\ [](\A t1, t2 \in Threads :
          (t1 # t2 /\ callId[t1] # 0) => callId[t1] # callId[t2])
  /\ [][\A t \in Threads :
          Registers(t) =>
            /\ callId'[t] = seq + 1
            /\ seq' = seq + 1
            /\ callId'[t] >= 1
            /\ callId'[t] \notin DOMAIN pending
            /\ callId'[t] \notin DOMAIN chans]_vars

\* two Calls are blocked at the same time, with the ids 1 and 2
C21_Witness ==
  /\ callPc["c1"] = "waiting"
  /\ callPc["c2"] = "waiting"
  /\ {callId["c1"], callId["c2"]} = {1, 2}

\* ------------------------------------------------------------------------
\* Paths of the References (SpecFR)
\* ------------------------------------------------------------------------
\* the URI names a file below the repository root
UnderRoot(uri) == HasPrefix(uri, URIFromFile(Root) \o <<"/">>)

\* the path of the URI's file relative to the repository root
RelativeToRoot(uri) == SubSeq(uri, Len(URIFromFile(Root)) + 2, Len(uri))

\* C22: when the references Call of a span returns Locations, the Reference
\* appended for a Location whose URI lies under the repository root carries
\* the path of that file relative to the root.
C22_ReferencePathRelative ==
  [][(/\ frPc = "querying"
      /\ frPc' = "loop"
      /\ callRet[Main].err = "none"
      /\ callRet[Main].res.kind = "locs")
     => LET locs == callRet[Main].res.locs
            old == frSpans[frI].References
            new == frSpans'[frI].References
        IN  \A k \in 1..Len(locs) :
              UnderRoot(locs[k].URI) =>
                new[Len(old) + k].Path = RelativeToRoot(locs[k].URI)]_vars

\* ------------------------------------------------------------------------
\* More properties of ParsePatch (SpecPatch)
\* ------------------------------------------------------------------------
\* items that are a line starting with "@@" that is no hunk header
MalformedHeaders(items) ==
  {h \in 1..Len(items) : items[h].text = MalformedHeader}

\* C23: no number is emitted by the lines between a "@@" line that is not a
\* well-formed hunk header and the next "@@" line (ParsePatch has no error
\* to raise: it returns nil as its error on every path).
C23_MalformedHeaderSegmentEmpty ==
  patchPc = "parsed" =>
    \A h \in MalformedHeaders(patchSrc) : EmittedBy(h) = {}

\* C24: no number is emitted by a patch line that starts with "+++", and
\* such a line does not advance the counter: an added line right after it
\* gets the number the "+++" line would have got.
C24_TriplePlusIgnored ==
  patchPc = "parsed" =>
    /\ \A k \in 1..Len(emittedAt) :
         ~HasPrefix(patchSrc[emittedAt[k]].text, AddedPlusPlus)
    /\ \A k \in 1..(Len(emittedAt) - 1) :
         (/\ emittedAt[k + 1] = emittedAt[k] + 2
          /\ HasPrefix(patchSrc[emittedAt[k] + 1].text, AddedPlusPlus))
           => changedLines[k + 1] = changedLines[k] + 1

\* C27: every number ParsePatch returns is at least 1, whatever the patch
\* text.
C27_LinesAtLeastOne ==
  patchPc = "parsed" => \A k \in 1..Len(changedLines) : changedLines[k] >= 1

\* C25: in the segment of a well-formed hunk header, every number emitted
\* comes from a line that starts with '+' and equals the header's new-range
\* start plus the number of lines starting with '+' or ' ' between the
\* header and that line ('-' and '\' lines count for nothing), and the
\* numbers of the segment are strictly increasing.
C25_NumbersWithinHunk ==
  patchPc = "parsed" =>
    \A h \in HunkHeaders(patchSrc) :
      /\ \A k \in EmittedBy(h) :
           /\ HasPrefix(patchSrc[emittedAt[k]].text, <<"+">>)
           /\ changedLines[k] =
                patchSrc[h].start
                  + CountIn(patchSrc, h + 1, emittedAt[k] - 1,
                            {<<" ">>, <<"+">>})
      /\ \A k, m \in EmittedBy(h) :
           k < m => changedLines[k] < changedLines[m]
      /\ \A j \in (h + 1)..SegmentEnd(patchSrc, h) :
           (HasPrefix(patchSrc[j].text, <<"-">>)
              \/ HasPrefix(patchSrc[j].text, <<"\\">>))
             => \A k \in EmittedBy(h) : emittedAt[k] # j

\* a hunk at line 12 with a removed line and a '\' marker between two added
\* lines: the numbers are 12 and 13
C25_Witness ==
  /\ patchPc = "parsed"
  /\ \E h \in HunkHeaders(patchSrc) :
       /\ patchSrc[h].start = 12
       /\ h + 4 <= Len(patchSrc)
       /\ patchSrc[h + 1].text = AddedLine
       /\ patchSrc[h + 2].text = RemovedLine
       /\ patchSrc[h + 3].text = NoNewlineMarker
       /\ patchSrc[h + 4].text = AddedLine
       /\ changedLines = <<12, 13>>

\* C26: when a Call has returned, for whatever reason, the pending table
\* has no entry for its id: every id in the table is the id of a Call that
\* is registered or waiting.
C26_ReturnedCallNotPending ==
  /\ \A t \in Threads :
       callPc[t] = "returned" => callId[t] \notin DOMAIN pending
  /\ \A id \in DOMAIN pending :
       \E t \in Threads :
         callId[t] = id /\ callPc[t] \in {"registered", "waiting"}

\* ------------------------------------------------------------------------
\* Termination of FindReferences (SpecFRLive)
\* ------------------------------------------------------------------------
\* C28: every FindReferences call eventually returns, whatever the analyzer
\* does: also when it answers nothing and keeps running after its standard
\* input has been closed.
C28_FindReferencesReturns == <>(frPc = "returned")

\* ------------------------------------------------------------------------
\* Registration before the request is written (SpecClient)
\* ------------------------------------------------------------------------
\* ids of the requests written to the analyzer so far
WrittenIds == {stdin[k].id : k \in 1..Len(stdin)}

\* a Call that has registered and not yet written has a slot and no request
\* on the wire; every request on the wire has had a slot made for it
RegisteredBeforeWritten ==
  /\ \A t \in Threads :
       callPc[t] = "registered" =>
         /\ callId[t] \in DOMAIN chans
         /\ callId[t] \notin WrittenIds
         /\ callId[t] \in DOMAIN pending
              \/ chans[callId[t]].closed
              \/ (readerPc = "deliver" /\ readerMsg.id = callId[t])
  /\ WrittenIds \subseteq DOMAIN chans

\* the reader takes a frame off the stream: when the frame answers a request
\* that was written, its id is in the table and the frame is on its way to
\* that slot, unless the slot has had its delivery already
ReadFindsRegistration ==
  (readerPc = "read" /\ stdout' # stdout /\ Len(stdout') < Len(stdout)) =>
    LET f == ReadFrame(stdout)
    IN  (f.status = "message" /\ f.msg.hasId /\ f.msg.id \in WrittenIds) =>
          \/ /\ f.msg.id \in DOMAIN pending
             /\ readerPc' = "deliver"
             /\ readerMsg' = [id |-> f.msg.id, result |-> f.msg.result]
          \/ chans[f.msg.id].closed

\* a value delivered to the slot of a Call that has not returned stays in
\* the buffer until that Call's receive takes it and returns it
EarlyResponseKept ==
  \A t \in Threads :
    (callPc[t] \in {"registered", "waiting"} /\ chans[callId[t]].buf # <<>>) =>
      \/ /\ chans'[callId[t]].buf = chans[callId[t]].buf
         /\ callId'[t] = callId[t]
      \/ /\ callPc[t] = "waiting"
         /\ callPc'[t] = "returned"
         /\ callRet'[t] = [res |-> Head(chans[callId[t]].buf), err |-> "none"]

\* C29: a Call's slot is in the pending table before its request is
\* written, so the reader never reads the response to a written request
\* without finding the registration, and a response delivered before the
\* caller waits on its channel stays buffered and is what the caller's
\* receive returns.
C29_RegisteredBeforeWritten ==
  /\ []RegisteredBeforeWritten
  /\ [][ReadFindsRegistration]_vars
  /\ [][EarlyResponseKept]_vars

\* the response to a written request sits in the caller's buffer, its table
\* entry gone, and the caller has not received yet
C29_Witness ==
  \E t \in Callers :
    /\ callPc[t] = "waiting"
    /\ callId[t] \in WrittenIds
    /\ callId[t] \notin DOMAIN pending
    /\ chans[callId[t]].buf # <<>>
    /\ chans[callId[t]].buf[1] # Nil

\* ------------------------------------------------------------------------
\* The session lock (SpecServer)
\* ------------------------------------------------------------------------
\* the handler is at a statement that reads session
ReadsSession(h) == handlers[h].pc \in {"encode", "copy"}

\* the handler is at the statement that replaces session
WritesSession(h) == handlers[h].pc = "store"

\* C30: a handler of /session, /refresh or /analyze that reads the shared
\* session holds the session lock while it does, one that writes it holds
\* the lock exclusively, and so no handler reads the session while a
\* /refresh is replacing it.
C30_SessionUnderLock ==
  \A h \in DOMAIN handlers :
    /\ ReadsSession(h) => h \in sessionMu.readers \/ sessionMu.writer = h
    /\ WritesSession(h) => sessionMu.writer = h
    /\ \A g \in DOMAIN handlers \ {h} :
         ~(ReadsSession(h) /\ WritesSession(g))

============================================================================
